---------------------------- MODULE Spec2Model ----------------------------
(***************************************************************************)
(* A model of ketera-bot's documentation lookup: the path resolver of      *)
(* src/rust/search.rs (get_document and CrateStructure::get_document), the *)
(* lookup and follow-up handlers of src/rust/mod.rs (search_crate,         *)
(* search_crate_callback), the dispatch of src/main.rs (command_handler,   *)
(* callback_handler) and the two process-wide maps SEARCH_RESULT and       *)
(* CALLBACK_SESSIONS.                                                      *)
(*                                                                         *)
(* Conventions.                                                            *)
(*  - A Rust String is a sequence of chunks.  A chunk is a TLA+ string     *)
(*    holding either exactly one of the characters the code inspects       *)
(*    (":", "/", "&", "<", ">", a newline) or a run of other characters.   *)
(*    Concatenation is \o, so format!/join/push_str are sequence           *)
(*    concatenations and str::split is a scan over chunks.                 *)
(*  - Option<T> is a set with at most one element: None is {} and          *)
(*    Some(x) is {x}.                                                      *)
(*  - A handler is an async fn: one action per stretch of code between     *)
(*    two points where the handler is suspended on the network or on a     *)
(*    lock, and the pc of the handler names the await it is suspended on.  *)
(***************************************************************************)
EXTENDS Integers, Sequences, FiniteSets, TLC

(***************************************************************************)
(* Option<T>                                                               *)
(***************************************************************************)
None == {}

Some(x) == {x}

IsSome(o) == o # {}

Unwrap(o) == CHOOSE x \in o : TRUE

(***************************************************************************)
(* Strings as chunk sequences                                              *)
(***************************************************************************)
Str(c) == <<c>>

RECURSIVE Concat(_)
\* the concatenation of a sequence of strings
Concat(ss) == IF ss = <<>> THEN <<>> ELSE Head(ss) \o Concat(Tail(ss))

RECURSIVE Join(_, _)
\* [&str]::join(sep): the strings with sep between consecutive ones
Join(ss, sep) ==
    IF ss = <<>> THEN <<>>
    ELSE IF Len(ss) = 1 THEN ss[1]
    ELSE ss[1] \o sep \o Join(Tail(ss), sep)

RECURSIVE Text(_)
\* the string a chunk sequence stands for
Text(s) == IF s = <<>> THEN "" ELSE Head(s) \o Text(Tail(s))

Reverse(s) == [i \in 1..Len(s) |-> s[Len(s) + 1 - i]]

RECURSIVE SplitAcc(_, _, _, _)
\* the scan of str::split("::"): i is the next chunk, cur the segment being
\* read, acc the segments already closed; matches do not overlap
SplitAcc(s, i, cur, acc) ==
    IF i > Len(s) THEN Append(acc, cur)
    ELSE IF s[i] = ":" /\ i + 1 <= Len(s) /\ s[i + 1] = ":"
         THEN SplitAcc(s, i + 2, <<>>, Append(acc, cur))
         ELSE SplitAcc(s, i + 1, Append(cur, s[i]), acc)

\* path.split("::").collect(): never empty, "" splits to [""]
Split(path) == SplitAcc(path, 1, <<>>, <<>>)

\* &tree[a..b] with Rust's 0-based half-open bounds
Slice(s, a, b) == SubSeq(s, a + 1, b)


(***************************************************************************)
(* Origin Locator: get_latest_document, get_std_rs, get_docs_rs            *)
(***************************************************************************)
\* the crate names get_std_rs answers without a request
StdCrates == {<<"alloc">>, <<"core">>, <<"proc_macro">>, <<"std">>, <<"text">>}

\* get_std_rs without its allow-list: a mutant
get_std_rs_none(crate_name) == None

get_std_rs(crate_name) ==
    IF crate_name \in StdCrates
    THEN Some([url |-> <<"https://doc.rust-lang.org/stable/">> \o crate_name \o <<"/">>])
    ELSE None

\* the URL get_docs_rs requests
DocsRsUrl(crate_name) == <<"https://docs.rs/">> \o crate_name

\* the status get_docs_rs takes for a redirect (StatusCode::FOUND)
FOUND == 302

\* the Crate built from a Location header value: one '/' is pushed unless the
\* value already ends with one
NormalizeLocation(location) ==
    LET s == Text(location)
    IN  IF Len(s) >= 1 /\ SubSeq(s, Len(s), Len(s)) = "/"
        THEN location
        ELSE location \o <<"/">>

\* get_docs_rs once the response is there: a response is [status, location],
\* location being the Option of the Location header.  The result is "panic"
\* when the header is unwrapped and absent, and when to_str is unwrapped on a
\* value with a byte that is neither visible ASCII nor a tab (the grave
\* accent, which a string of this module cannot hold, is left out).
DocsRsResult(response) ==
    LET printable == " !\"#$%&'()*+,-./0123456789:;<=>?@ABCDEFGHIJKLMNOPQRSTUVWXYZ"
                     \o "[\\]^_abcdefghijklmnopqrstuvwxyz{|}~\t"
        visible == {SubSeq(printable, i, i) : i \in 1..Len(printable)}
        to_str_ok(value) == \A i \in 1..Len(value) : SubSeq(value, i, i) \in visible
    IN  IF response.status = FOUND
        THEN IF IsSome(response.location) /\ to_str_ok(Text(Unwrap(response.location)))
             THEN [tag |-> "ok",
                   crate |-> Some([url |-> NormalizeLocation(Unwrap(response.location))])]
             ELSE [tag |-> "panic", crate |-> None]
        ELSE [tag |-> "ok", crate |-> None]

(***************************************************************************)
(* Candidate Model: the CrateStructure values get_document builds          *)
(***************************************************************************)
Shapes == <<"Module", "Function", "Struct", "Trait", "Method", "TraitMethod">>

ModuleCandidate(tree) == [shape |-> "Module", module |-> tree]

ItemCandidate(shape, tree) ==
    [shape |-> shape, module |-> Slice(tree, 0, Len(tree) - 1), name |-> tree[Len(tree)]]

OwnedCandidate(shape, tree) ==
    [shape |-> shape, module |-> Slice(tree, 0, Len(tree) - 2),
     owner |-> tree[Len(tree) - 1], name |-> tree[Len(tree)]]

\* Candidates with the two-segment branch lost, a path of two segments
\* treated as one of a single segment: a mutant
CandidatesNoPair(tree) ==
    IF Len(tree) <= 2 THEN <<ModuleCandidate(tree)>>
    ELSE <<ModuleCandidate(tree), ItemCandidate("Function", tree),
           ItemCandidate("Struct", tree), ItemCandidate("Trait", tree),
           OwnedCandidate("Method", tree), OwnedCandidate("TraitMethod", tree)>>

\* the candidates of a path, in the order get_document hands them to try_join!
\* (a single awaited Module candidate when the path has one segment)
Candidates(tree) ==
    IF Len(tree) = 1 THEN <<ModuleCandidate(tree)>>
    ELSE IF Len(tree) = 2
    THEN <<ModuleCandidate(tree), ItemCandidate("Function", tree),
           ItemCandidate("Struct", tree), ItemCandidate("Trait", tree)>>
    ELSE <<ModuleCandidate(tree), ItemCandidate("Function", tree),
           ItemCandidate("Struct", tree), ItemCandidate("Trait", tree),
           OwnedCandidate("Method", tree), OwnedCandidate("TraitMethod", tree)>>

RECURSIVE ModuleTree(_)
\* module[1..].iter().fold(String::new(), ...): every segment followed by '/'
ModuleTree(segments) ==
    IF segments = <<>> THEN <<>>
    ELSE Head(segments) \o <<"/">> \o ModuleTree(Tail(segments))

\* FileName with the page of a method named after the method: a mutant
FileNameOfMethod(cand) ==
    CASE cand.shape = "Module"      -> <<"index.html">>
      [] cand.shape = "Function"    -> <<"fn.">> \o cand.name \o <<".html">>
      [] cand.shape = "Struct"      -> <<"struct.">> \o cand.name \o <<".html">>
      [] cand.shape = "Trait"       -> <<"trait.">> \o cand.name \o <<".html">>
      [] cand.shape = "Method"      -> <<"struct.">> \o cand.name \o <<".html">>
      [] cand.shape = "TraitMethod" -> <<"trait.">> \o cand.name \o <<".html">>

\* the file name a candidate's shape asks for
FileName(cand) ==
    CASE cand.shape = "Module"      -> <<"index.html">>
      [] cand.shape = "Function"    -> <<"fn.">> \o cand.name \o <<".html">>
      [] cand.shape = "Struct"      -> <<"struct.">> \o cand.name \o <<".html">>
      [] cand.shape = "Trait"       -> <<"trait.">> \o cand.name \o <<".html">>
      [] cand.shape = "Method"      -> <<"struct.">> \o cand.owner \o <<".html">>
      [] cand.shape = "TraitMethod" -> <<"trait.">> \o cand.owner \o <<".html">>

\* the URL CrateStructure::get_document requests
CandidateUrl(cand, crate) ==
    crate.url \o ModuleTree(Tail(cand.module)) \o FileName(cand)

(***************************************************************************)
(* Text helpers of search.rs and util.rs                                   *)
(*                                                                         *)
(* A parsed page is a record of what the selectors of search.rs find in    *)
(* it.  A node is [kind |-> "element" or "text", ...]; an element carries  *)
(* name (its tag), classes, text (the concatenation of its text nodes, as  *)
(* ElementRef::text yields them in texts), html (its inner_html) and       *)
(* children.                                                               *)
(***************************************************************************)
\* the characters of char::is_whitespace (Unicode White_Space) that a string
\* of this module can hold: space, line feed, tab, form feed, carriage
\* return, line tabulation U+000B, next line U+0085, no-break space U+00A0,
\* ogham space U+1680.  The others (U+2000 to U+200A, U+2028, U+2029, U+202F,
\* U+205F, U+3000) are refused in a string of this module and are not among
\* the inputs.
Whitespace == {" ", "\n", "\t", "\f", "\r", "", "", " ", " "}

\* str::replace of one character by a string
ReplaceChar(s, c, r) == [i \in 1..Len(s) |-> IF s[i] = c THEN r ELSE s[i]]

escape_html_entities(s) ==
    ReplaceChar(ReplaceChar(ReplaceChar(s, "&", "&amp;"), "<", "&lt;"), ">", "&gt;")

\* item.text().collect()
node_text(item) == Concat(item.texts)

RECURSIVE CodeFold(_, _)
\* the fold of code_node_text: a newline goes before a text node that is
\* "where" or starts with whitespace
CodeFold(texts, acc) ==
    IF texts = <<>> THEN acc
    ELSE LET t == Head(texts)
             s == Text(t)
             brk == s = "where" \/ (Len(s) >= 1 /\ SubSeq(s, 1, 1) \in Whitespace)
         IN  CodeFold(Tail(texts), (IF brk THEN acc \o <<"\n">> ELSE acc) \o t)

CodeBlock(s) == <<"<pre><code class=\"language-rust\">">> \o s \o <<"</code></pre>">>

code_node_text(code) == CodeBlock(escape_html_entities(CodeFold(code.texts, <<>>)))

\* ElementRef::wrap: an element node, or None for a text node
ElementRef_wrap(node) == IF node.kind = "element" THEN Some(node) ELSE None

\* the chunks of an inner_html that DANGLING_LINK reads: the opening of an
\* anchor up to the quote, the end of its opening tag, and its closing tag
AOpen == "<a href=\""

AClose == "\">"

AEnd == "</a>"

\* the chunk starts with the letter h (the [^h] of DANGLING_LINK looks at the
\* first character after the quote)
StartsWithH(c) == Len(c) >= 1 /\ SubSeq(c, 1, 1) = "h"

\* DANGLING_LINK.replace_all(html, "$1") for <a href="[^h].*">([\s\S]*)</a>:
\* the leftmost opening whose target does not start with h (of an empty
\* target [^h] takes the closing quote, and the tag must end further on);
\* .* is greedy and stays on one line, so the tag ends at the last "> of that line
\* that still has a </a> after it; [\s\S]* is greedy, so the match ends at
\* the last </a> of the string, and nothing after it can match again
ReplaceDanglingLinks(html) ==
    LET n == Len(html)
        NoNewline(a, b) == \A k \in a..b : html[k] # "\n"
        Ends == {k \in 1..n : html[k] = AEnd}
        Closes(i) == {j \in (i + 2)..n :
                        /\ html[j] = AClose
                        /\ (html[i + 1] = "" => j > i + 2)
                        /\ NoNewline(i + 2, j - 1)
                        /\ \E k \in Ends : k > j}
        Starts == {i \in 1..n :
                        /\ html[i] = AOpen
                        /\ i + 1 <= n
                        /\ ~StartsWithH(html[i + 1])
                        /\ Closes(i) # {}}
    IN  IF Starts = {} THEN html
        ELSE LET i == CHOOSE x \in Starts : \A y \in Starts : x <= y
                 j == CHOOSE x \in Closes(i) : \A y \in Closes(i) : x >= y
                 k == CHOOSE x \in Ends : \A y \in Ends : x >= y
             IN  SubSeq(html, 1, i - 1) \o SubSeq(html, j + 1, k - 1) \o SubSeq(html, k + 1, n)

parse_document_paragraph(paragraph) ==
    CASE paragraph.name = "p"   -> Some(ReplaceDanglingLinks(paragraph.html))
      [] paragraph.name = "div" -> Some(CodeBlock(escape_html_entities(node_text(paragraph))))
      [] OTHER                  -> None

RECURSIVE FilterElements(_)
\* children().filter_map(ElementRef::wrap)
FilterElements(nodes) ==
    IF nodes = <<>> THEN <<>>
    ELSE IF IsSome(ElementRef_wrap(Head(nodes)))
         THEN <<Head(nodes)>> \o FilterElements(Tail(nodes))
         ELSE FilterElements(Tail(nodes))

RECURSIVE SectionWalkKeepsBuffer(_, _, _)
\* SectionWalk without the buffer.clear() at a heading: a mutant
SectionWalkKeepsBuffer(rev, buffer, sections) ==
    IF rev = <<>>
    THEN [description |-> Join(Reverse(buffer), <<"\n">>), sections |-> sections]
    ELSE LET paragraph == Head(rev)
         IN  IF paragraph.name = "h1"
             THEN SectionWalkKeepsBuffer(Tail(rev), buffer,
                     Append(sections, <<node_text(paragraph), Join(Reverse(buffer), <<"\n">>)>>))
             ELSE LET text == parse_document_paragraph(paragraph)
                  IN  IF IsSome(text)
                      THEN SectionWalkKeepsBuffer(Tail(rev), Append(buffer, Unwrap(text)),
                                                  sections)
                      ELSE SectionWalkKeepsBuffer(Tail(rev), buffer, sections)

RECURSIVE SectionWalk(_, _, _)
\* the loop over the reversed children of a docblock: at an h1 the buffer,
\* reversed, is pushed as that heading's section and cleared; what is left in
\* the buffer at the end, reversed, is the description
SectionWalk(rev, buffer, sections) ==
    IF rev = <<>>
    THEN [description |-> Join(Reverse(buffer), <<"\n">>), sections |-> sections]
    ELSE LET paragraph == Head(rev)
         IN  IF paragraph.name = "h1"
             THEN SectionWalk(Tail(rev), <<>>,
                     Append(sections, <<node_text(paragraph), Join(Reverse(buffer), <<"\n">>)>>))
             ELSE LET text == parse_document_paragraph(paragraph)
                  IN  IF IsSome(text)
                      THEN SectionWalk(Tail(rev), Append(buffer, Unwrap(text)), sections)
                      ELSE SectionWalk(Tail(rev), buffer, sections)

\* the description and the sections read from a docblock element
ReadDocblock(inner) == SectionWalk(Reverse(FilterElements(inner.children)), <<>>, <<>>)

(***************************************************************************)
(* HTML Extractor: CrateStructure::get_document after a 2xx response       *)
(*                                                                         *)
(* A page is the record of what each selector of search.rs matches in the  *)
(* parsed document, in document order:                                     *)
(*   pre          the first "pre" (DEFINITION_SELECTOR), an Option         *)
(*   portability  the first "#main > .stability strong", an Option         *)
(*   docblock     the first "div.docblock:not(.type-decl", an Option       *)
(*   rows         per listing bucket, the "tr" of the table after its      *)
(*                heading; a row has td and short (Options), deprecated    *)
(*                and portability                                          *)
(*   impl_methods "#impl + .impl-items h4 > code" (METHODS_SELECTOR)       *)
(*   in_band      "#implementations-list .in-band" (IMPLS_SELECTOR)        *)
(*   required, provided, trait_impls, implementors: the Trait selectors    *)
(*   anchors      the elements that carry an id, each with its first       *)
(*                "code" (an Option) and the sibling nodes that follow it  *)
(*   matches      what a selector made from a method's name selects first  *)
(*                when it is more than a list of ids: the selector's text  *)
(*                and the element, described as an anchor is               *)
(* An extraction ends [tag |-> "ok", doc |-> Option] or [tag |-> "panic"]  *)
(* when an unwrap meets None.                                              *)
(***************************************************************************)
Buckets == <<"modules", "structs", "traits", "enums", "macros", "functions",
             "attributes", "consts">>

\* parse_document_brief needs the row's first td and its .docblock-short > p
BriefPanics(item) == item.td = None \/ item.short = None

parse_document_brief(item) ==
    [name |-> node_text(Unwrap(item.td)),
     deprecated |-> item.deprecated,
     portability |-> item.portability,
     description |-> Unwrap(item.short)]

MapBrief(rows) == [i \in 1..Len(rows) |-> parse_document_brief(rows[i])]

MapCode(codes) == [i \in 1..Len(codes) |-> code_node_text(codes[i])]

Ok(doc) == [tag |-> "ok", doc |-> doc]

Panic == [tag |-> "panic", doc |-> None]

ExtractModule(cand, html) ==
    IF \E b \in 1..Len(Buckets) : \E i \in 1..Len(html.rows[Buckets[b]]) :
           BriefPanics(html.rows[Buckets[b]][i])
    THEN Panic
    ELSE Ok(Some([kind |-> "Module",
                  path |-> Join(cand.module, <<":", ":">>),
                  portability |-> html.portability,
                  modules |-> MapBrief(html.rows["modules"]),
                  structs |-> MapBrief(html.rows["structs"]),
                  traits |-> MapBrief(html.rows["traits"]),
                  enums |-> MapBrief(html.rows["enums"]),
                  macros |-> MapBrief(html.rows["macros"]),
                  functions |-> MapBrief(html.rows["functions"]),
                  attributes |-> MapBrief(html.rows["attributes"]),
                  consts |-> MapBrief(html.rows["consts"])]))

\* format!("{}::{}", module.join("::"), name)
\* ItemPath joining the module segments with a single colon: a mutant
ItemPathColon(cand) == Join(cand.module, <<":">>) \o <<":", ":">> \o cand.name

ItemPath(cand) == Join(cand.module, <<":", ":">>) \o <<":", ":">> \o cand.name

ExtractFunction(cand, html) ==
    IF html.pre = None \/ html.docblock = None THEN Panic
    ELSE LET read == ReadDocblock(Unwrap(html.docblock))
         IN  Ok(Some([kind |-> "Function",
                      path |-> ItemPath(cand),
                      definition |-> code_node_text(Unwrap(html.pre)),
                      portability |-> html.portability,
                      description |-> read.description,
                      sections |-> read.sections]))

ExtractStruct(cand, html) ==
    IF html.pre = None \/ html.docblock = None THEN Panic
    ELSE LET read == ReadDocblock(Unwrap(html.docblock))
         IN  Ok(Some([kind |-> "Struct",
                      path |-> ItemPath(cand),
                      definition |-> code_node_text(Unwrap(html.pre)),
                      portability |-> html.portability,
                      description |-> read.description,
                      sections |-> read.sections,
                      methods |-> MapCode(html.in_band),
                      implementations |-> MapCode(html.in_band)]))

ExtractTrait(cand, html) ==
    IF html.pre = None \/ html.docblock = None THEN Panic
    ELSE LET read == ReadDocblock(Unwrap(html.docblock))
         IN  Ok(Some([kind |-> "Trait",
                      path |-> ItemPath(cand),
                      definition |-> code_node_text(Unwrap(html.pre)),
                      portability |-> html.portability,
                      description |-> read.description,
                      sections |-> read.sections,
                      required_methods |-> MapCode(html.required),
                      provided_methods |-> MapCode(html.provided),
                      implementations |-> MapCode(html.trait_impls),
                      implementors |-> MapCode(html.implementors)]))

\* the first element, in document order, whose id is one of ids
SelectFirstId(html, ids) ==
    LET hits == {i \in 1..Len(html.anchors) : Text(html.anchors[i].id) \in ids}
    IN  IF hits = {} THEN None
        ELSE Some(html.anchors[CHOOSE i \in hits : \A j \in hits : i <= j])

\* the part of Method and TraitMethod after the anchor is found: the sibling
\* after the anchor may be a stability block, and the sibling after that (or
\* after the anchor) may be a docblock
ExtractAnchored(kind, cand, function) ==
    IF function.code = None THEN Panic
    ELSE LET sibs == function.sibs
             first == IF Len(sibs) >= 1 THEN ElementRef_wrap(sibs[1]) ELSE None
             stab == IsSome(first) /\ "stability" \in Unwrap(first).classes
             portability == IF stab THEN Unwrap(first).strong ELSE None
             at == IF stab THEN 2 ELSE 1
             next == IF Len(sibs) >= at THEN ElementRef_wrap(sibs[at]) ELSE None
             isdoc == IsSome(next) /\ "docblock" \in Unwrap(next).classes
             read == IF isdoc THEN ReadDocblock(Unwrap(next))
                     ELSE [description |-> <<>>, sections |-> <<>>]
         IN  Ok(Some([kind |-> kind,
                      path |-> Join(cand.module, <<":", ":">>) \o <<":", ":">> \o cand.owner
                               \o <<":", ":">> \o cand.name,
                      definition |-> code_node_text(Unwrap(function.code)),
                      portability |-> portability,
                      description |-> read.description,
                      sections |-> read.sections]))

\* the characters U+0001 to U+007F in the order of their code points (a space
\* stands at the place of U+0060, which a string of this module cannot
\* hold), and the characters U+0080 to U+00FF
AsciiChars == "\t\n\f\r !\"#$%&'()*+,-./0123456789:;<=>?@ABCDEFGHIJKLMNOPQRSTUVWXYZ[\\]^_ abcdefghijklmnopqrstuvwxyz{|}~"

Latin1Chars == " ¡¢£¤¥¦§¨©ª«¬­®¯°±²³´µ¶·¸¹º»¼½¾¿ÀÁÂÃÄÅÆÇÈÉÊËÌÍÎÏÐÑÒÓÔÕÖ×ØÙÚÛÜÝÞßàáâãäåæçèéêëìíîïðñòóôõö÷øùúûüýþÿ"

\* str.to_ascii_lowercase()
RECURSIVE to_ascii_lowercase(_)
to_ascii_lowercase(str) ==
    LET Lower == "abcdefghijklmnopqrstuvwxyz"
        Upper == "ABCDEFGHIJKLMNOPQRSTUVWXYZ"
        c == SubSeq(str, 1, 1)
    IN  IF str = "" THEN ""
        ELSE (IF \E k \in 1..26 : SubSeq(Upper, k, k) = c
              THEN SubSeq(Lower, CHOOSE k \in 1..26 : SubSeq(Upper, k, k) = c,
                                 CHOOSE k \in 1..26 : SubSeq(Upper, k, k) = c)
              ELSE c) \o to_ascii_lowercase(SubSeq(str, 2, Len(str)))

\* the tokens cssparser's Tokenizer reads from input, without the comments,
\* which the parser skips (cssparser 0.27).  A token has its kind k, the
\* value v of a name with its escapes resolved, and the sign and
\* integrality of a number.  "url(" is read as any other function token: no
\* selector holds either.  A character is non-ASCII when it is not one of
\* AsciiChars; U+0000 is read so too, which is how the tokenizer reads it,
\* but it stays in a name as it is instead of becoming U+FFFD.  An escape of
\* a code point above U+00FF, or of U+0060, gives a character this module
\* cannot write: the name is marked as not exact.
Tokenizer_tokens(input) ==
    LET n == Len(input)
        at(i) == IF i >= 1 /\ i <= n THEN SubSeq(input, i, i) ELSE ""
        Chars(str) == {SubSeq(str, k, k) : k \in 1..Len(str)}
        Letter == Chars("abcdefghijklmnopqrstuvwxyzABCDEFGHIJKLMNOPQRSTUVWXYZ")
        Digit == Chars("0123456789")
        HexDigit == Chars("0123456789abcdefABCDEF")
        Newline == {"\n", "\r", "\f"}
        Space == {" ", "\t", "\n", "\r", "\f"}
        NonAscii(c) == c # "" /\ \A k \in 1..Len(AsciiChars) : SubSeq(AsciiChars, k, k) # c
        REPLACEMENT_CHAR == "�"
        Token(k, v) == [k |-> k, v |-> v, exact |-> TRUE, has_sign |-> FALSE, is_integer |-> FALSE]
        Named(k, name, end) == [tok |-> [Token(k, name.value) EXCEPT !.exact = name.exact], end |-> end]
        RECURSIVE hex_end(_, _)
        hex_end(i, k) == IF k < 6 /\ at(i) \in HexDigit THEN hex_end(i + 1, k + 1) ELSE i
        RECURSIVE hex_value(_, _, _)
        hex_value(i, j, acc) ==
            IF i >= j THEN acc
            ELSE hex_value(i + 1, j,
                           acc * 16 + (CHOOSE k \in 1..16 : SubSeq("0123456789abcdef", k, k)
                                                             = to_ascii_lowercase(at(i))) - 1)
        consume_newline(i) == IF at(i) = "\r" /\ at(i + 1) = "\n" THEN i + 2 ELSE i + 1
        \* char::from_u32(c) of the escaped code point c, and the place e
        \* after the escape
        from_u32(c, e) ==
            IF c = 0 \/ c > 1114111 \/ c \in 55296..57343
            THEN [end |-> e, value |-> REPLACEMENT_CHAR, exact |-> TRUE]
            ELSE IF c = 96 \/ c > 255
            THEN [end |-> e, value |-> REPLACEMENT_CHAR, exact |-> FALSE]
            ELSE [end |-> e,
                  value |-> IF c <= 127 THEN SubSeq(AsciiChars, c, c)
                            ELSE SubSeq(Latin1Chars, c - 127, c - 127),
                  exact |-> TRUE]
        \* the digits of an escape end at j, and one white space after them
        \* belongs to it
        consume_hex_digits(i, j) ==
            from_u32(hex_value(i, j, 0),
                     IF at(j) \in {" ", "\t"} THEN j + 1
                     ELSE IF at(j) \in Newline THEN consume_newline(j) ELSE j)
        \* i is the place after the backslash
        consume_escape(i) ==
            IF i > n THEN [end |-> i, value |-> REPLACEMENT_CHAR, exact |-> TRUE]
            ELSE IF at(i) \in HexDigit THEN consume_hex_digits(i, hex_end(i, 0))
            ELSE [end |-> i + 1, value |-> at(i), exact |-> TRUE]
        \* is_ident_start at a place, by the character c at it and the next, d
        is_ident_start(c, d) ==
            \/ c \in Letter \cup {"_"}
            \/ NonAscii(c)
            \/ c = "-" /\ (d \in Letter \cup {"-", "_", "\\"} \/ NonAscii(d))
            \/ c = "\\" /\ d \notin Newline
        RECURSIVE consume_name(_, _, _)
        escaped_name(e, value, exact) == consume_name(e.end, value \o e.value, exact /\ e.exact)
        name_char(c, d, i, value, exact) ==
            IF c \in Letter \cup Digit \cup {"_", "-"} \/ NonAscii(c)
            THEN consume_name(i + 1, value \o c, exact)
            ELSE IF c = "\\" /\ d \notin Newline
            THEN escaped_name(consume_escape(i + 1), value, exact)
            ELSE [end |-> i, value |-> value, exact |-> exact]
        consume_name(i, value, exact) == name_char(at(i), at(i + 1), i, value, exact)
        \* i is the place after the opening quote
        RECURSIVE consume_quoted_string(_, _)
        string_char(c, d, i, quote) ==
            IF c = "" THEN [end |-> i, bad |-> FALSE]
            ELSE IF c = quote THEN [end |-> i + 1, bad |-> FALSE]
            ELSE IF c \in Newline THEN [end |-> i, bad |-> TRUE]
            ELSE IF c # "\\" THEN consume_quoted_string(i + 1, quote)
            ELSE IF d = "" THEN [end |-> i + 1, bad |-> FALSE]
            ELSE IF d \in Newline THEN consume_quoted_string(consume_newline(i + 1), quote)
            ELSE consume_quoted_string(consume_escape(i + 1).end, quote)
        consume_quoted_string(i, quote) == string_char(at(i), at(i + 1), i, quote)
        consume_string(r) == [tok |-> Token(IF r.bad THEN "bad-string" ELSE "string", ""), end |-> r.end]
        RECURSIVE digits_end(_)
        digits_end(i) == IF at(i) \in Digit THEN digits_end(i + 1) ELSE i
        RECURSIVE consume_whitespace(_)
        consume_whitespace(i) == IF at(i) \in Space THEN consume_whitespace(i + 1) ELSE i
        RECURSIVE consume_comment(_)
        consume_comment(i) ==
            IF i > n THEN i
            ELSE IF at(i) = "*" /\ at(i + 1) = "/" THEN i + 2 ELSE consume_comment(i + 1)
        \* consume_numeric: [+-]?\d*(\.\d+)?([eE][+-]?\d+)? and a unit or "%";
        \* the digits before the point end at a, the number ends at c
        fraction_end(a) == IF at(a) = "." /\ at(a + 1) \in Digit THEN digits_end(a + 1) ELSE a
        exponent_end(b) ==
            IF at(b) \notin {"e", "E"} THEN b
            ELSE IF at(b + 1) \in Digit THEN digits_end(b + 1)
            ELSE IF at(b + 1) \in {"+", "-"} /\ at(b + 2) \in Digit THEN digits_end(b + 2)
            ELSE b
        numeric(k, has_sign, is_integer, unit) ==
            [tok |-> [k |-> k, v |-> unit.value, exact |-> unit.exact,
                      has_sign |-> has_sign, is_integer |-> is_integer],
             end |-> unit.end]
        numeric_unit(has_sign, is_integer, c) ==
            IF at(c) = "%" THEN [tok |-> Token("percentage", ""), end |-> c + 1]
            ELSE IF is_ident_start(at(c), at(c + 1))
            THEN numeric("dimension", has_sign, is_integer, consume_name(c, "", TRUE))
            ELSE numeric("number", has_sign, is_integer, [end |-> c, value |-> "", exact |-> TRUE])
        numeric_end(has_sign, a, c) == numeric_unit(has_sign, a = c, c)
        numeric_digits(has_sign, a) == numeric_end(has_sign, a, exponent_end(fraction_end(a)))
        consume_numeric(i, has_sign) ==
            numeric_digits(has_sign, digits_end(IF has_sign THEN i + 1 ELSE i))
        \* the token that holds a name: the name starts at the place i, or
        \* after the "#" or the "@" at it
        consume_ident_like(k, name) ==
            IF k # "ident" THEN Named(k, name, name.end)
            ELSE IF at(name.end) = "(" THEN Named("function", name, name.end + 1)
            ELSE Named("ident", name, name.end)
        marked(c, d, start) ==
            IF c = "#" THEN (IF start THEN "idhash" ELSE IF d \in Digit \cup {"-"} THEN "hash" ELSE "")
            ELSE IF start THEN "at-keyword" ELSE ""
        name_kind(i, c, d) ==
            IF c \in {"#", "@"} THEN marked(c, d, is_ident_start(d, at(i + 2)))
            ELSE IF c = "-" /\ d = "-" /\ at(i + 2) = ">" THEN ""
            ELSE IF is_ident_start(c, d) THEN "ident"
            ELSE ""
        \* the tokens of one or two characters, and "-->" and "<!--"
        punctuation(i, c, d) ==
            IF d = "=" /\ c \in {"$", "*", "^", "|", "~"} THEN [tok |-> Token(c \o "=", ""), end |-> i + 2]
            ELSE IF c = "|" /\ d = "|" THEN [tok |-> Token("||", ""), end |-> i + 2]
            ELSE IF c = "-" /\ d = "-" /\ at(i + 2) = ">" THEN [tok |-> Token("cdc", ""), end |-> i + 3]
            ELSE IF c = "<" /\ d = "!" /\ at(i + 2) = "-" /\ at(i + 3) = "-"
            THEN [tok |-> Token("cdo", ""), end |-> i + 4]
            ELSE IF c \in {"(", ")", "[", "]", "{", "}", ",", ":", ";"} THEN [tok |-> Token(c, ""), end |-> i + 1]
            ELSE [tok |-> Token("delim", c), end |-> i + 1]
        named(k, i, c, d) ==
            IF k = "" THEN punctuation(i, c, d)
            ELSE consume_ident_like(k, consume_name(IF c \in {"#", "@"} THEN i + 1 ELSE i, "", TRUE))
        next_token(i, c, d) ==
            IF c \in Space THEN [tok |-> Token("ws", ""), end |-> consume_whitespace(i)]
            ELSE IF c \in {"\"", "'"} THEN consume_string(consume_quoted_string(i + 1, c))
            ELSE IF c \in Digit \/ (c = "." /\ d \in Digit)
            THEN consume_numeric(i, FALSE)
            ELSE IF c \in {"+", "-"} /\ (d \in Digit \/ (d = "." /\ at(i + 2) \in Digit))
            THEN consume_numeric(i, TRUE)
            ELSE IF c = "/" /\ d = "*" THEN [tok |-> Token("comment", ""), end |-> consume_comment(i + 2)]
            ELSE named(name_kind(i, c, d), i, c, d)
        RECURSIVE tokens_from(_, _)
        token_read(r, tokens) ==
            tokens_from(r.end, IF r.tok.k = "comment" THEN tokens ELSE Append(tokens, r.tok))
        tokens_from(i, tokens) ==
            IF i > n THEN tokens ELSE token_read(next_token(i, at(i), at(i + 1)), tokens)
    IN  tokens_from(1, <<>>)

\* SelectorList::parse of the selectors crate over the tokens ts, and what the
\* list matches when it is made of ids (selectors 0.22; the parser of scraper
\* declares no namespace prefix and no pseudo-class or pseudo-element of its
\* own).  ok: the result is Ok.  plain: every selector of the list is made of
\* id selectors alone, and then ids are the ids an element may carry to match
\* one of them.
\* A parser of cssparser reads the tokens up to the one that closes its block
\* (stop), or up to the comma that ends its selector.  A place is an index of
\* ts; as the end of a parse, 0 is Err.
SelectorList_parse(ts) ==
    LET EndOfInput == [k |-> "eof", v |-> "", exact |-> TRUE, has_sign |-> FALSE, is_integer |-> FALSE]
        next_including_whitespace(p, stop) ==
            IF p > Len(ts) \/ ts[p].k = stop THEN EndOfInput ELSE ts[p]
        RECURSIVE skip_whitespace(_, _)
        skip_whitespace(p, stop) ==
            IF p <= Len(ts) /\ ts[p].k = "ws" /\ stop # "ws" THEN skip_whitespace(p + 1, stop) ELSE p
        is_delim(t, c) == t.k = "delim" /\ t.v = c
        Result(r, p) == [r |-> r, p |-> p]
        \* parse_nested_block, from the place r where the parse of the
        \* block's content has ended: the content is exhausted, and the
        \* place after the block
        expect_exhausted(q, stop) ==
            IF next_including_whitespace(q, stop).k # "eof" THEN 0
            ELSE IF q <= Len(ts) THEN q + 1 ELSE q
        parse_nested_block(r, stop) ==
            IF r = 0 THEN 0 ELSE expect_exhausted(skip_whitespace(r, stop), stop)
        explicit_namespace(t, q, in_attr_selector) ==
            IF is_delim(t, "*") /\ ~in_attr_selector THEN Result("some", q + 1)
            ELSE IF t.k = "ident" THEN Result("some", q + 1)
            ELSE IF t.k = "eof" THEN Result("eof", q)
            ELSE Result("err", q)
        qualified_name(t, after, last, p, in_attr_selector) ==
            CASE t.k = "ident" -> IF is_delim(after, "|") THEN Result("err", p)
                                  ELSE Result("some", p + 1)
              [] is_delim(t, "*") ->
                    IF is_delim(after, "|") THEN explicit_namespace(last, p + 2, in_attr_selector)
                    ELSE IF in_attr_selector THEN Result("err", p)
                    ELSE Result("some", p + 1)
              [] is_delim(t, "|") -> explicit_namespace(after, p + 1, in_attr_selector)
              [] t.k = "eof" -> Result("eof", p)
              [] OTHER -> Result("none", p)
        parse_qualified_name(p, stop, in_attr_selector) ==
            qualified_name(next_including_whitespace(p, stop),
                           next_including_whitespace(p + 1, stop),
                           next_including_whitespace(p + 2, stop), p, in_attr_selector)
        \* parse_attribute_selector; p is the place after "["
        parse_attribute_flags(t, f) ==
            IF t.k = "eof" THEN f
            ELSE IF t.k = "ident" /\ to_ascii_lowercase(t.v) \in {"i", "s"} THEN f + 1
            ELSE 0
        attribute_flags(f) == parse_attribute_flags(next_including_whitespace(f, "]"), f)
        attribute_value(t, v) ==
            IF t.k \notin {"ident", "string"} THEN 0
            ELSE attribute_flags(skip_whitespace(v + 1, "]"))
        expect_ident_or_string(v) == attribute_value(next_including_whitespace(v, "]"), v)
        attribute_operator(t, o) ==
            IF t.k = "eof" THEN o
            ELSE IF is_delim(t, "=") \/ t.k \in {"~=", "|=", "^=", "*=", "$="}
            THEN expect_ident_or_string(skip_whitespace(o + 1, "]"))
            ELSE 0
        attribute_next(o) == attribute_operator(next_including_whitespace(o, "]"), o)
        attribute_name(name) ==
            IF name.r # "some" THEN 0 ELSE attribute_next(skip_whitespace(name.p, "]"))
        parse_attribute_selector(p) ==
            attribute_name(parse_qualified_name(skip_whitespace(p, "]"), "]", TRUE))
        \* cssparser::parse_nth and its helpers; p is the place after "("
        parse_n_dash_digits(str) ==
            /\ Len(str) >= 3
            /\ SubSeq(str, 1, 2) = "n-"
            /\ \A k \in 3..Len(str) : \E d \in 1..10 : SubSeq("0123456789", d, d) = SubSeq(str, k, k)
        signless_b(t, a) ==
            IF t.k = "number" /\ ~t.has_sign /\ t.is_integer THEN a + 1 ELSE 0
        signless_b_at(a) == signless_b(next_including_whitespace(a, ")"), a)
        parse_signless_b(q) == signless_b_at(skip_whitespace(q, ")"))
        b(t, a, q) ==
            IF is_delim(t, "+") \/ is_delim(t, "-") THEN parse_signless_b(a + 1)
            ELSE IF t.k = "number" /\ t.has_sign /\ t.is_integer THEN a + 1
            ELSE q
        b_at(a, q) == b(next_including_whitespace(a, ")"), a, q)
        parse_b(q) == b_at(skip_whitespace(q, ")"), q)
        nth(t, value, after, signed, a) ==
            CASE t.k = "number" /\ t.is_integer -> a + 1
              [] t.k = "dimension" /\ t.is_integer ->
                    IF value = "n" THEN parse_b(a + 1)
                    ELSE IF value = "n-" THEN parse_signless_b(a + 1)
                    ELSE IF parse_n_dash_digits(value) THEN a + 1 ELSE 0
              [] t.k = "ident" ->
                    IF value \in {"even", "odd"} THEN a + 1
                    ELSE IF value \in {"n", "-n"} THEN parse_b(a + 1)
                    ELSE IF value \in {"n-", "-n-"} THEN parse_signless_b(a + 1)
                    ELSE IF parse_n_dash_digits(IF SubSeq(value, 1, 1) = "-"
                                                THEN SubSeq(value, 2, Len(value)) ELSE value)
                    THEN a + 1 ELSE 0
              [] is_delim(t, "+") ->
                    IF after.k # "ident" THEN 0
                    ELSE IF signed = "n" THEN parse_b(a + 2)
                    ELSE IF signed = "n-" THEN parse_signless_b(a + 2)
                    ELSE IF parse_n_dash_digits(signed) THEN a + 2 ELSE 0
              [] OTHER -> 0
        nth_tokens(t, after, a) == nth(t, to_ascii_lowercase(t.v), after, to_ascii_lowercase(after.v), a)
        nth_at(a) == nth_tokens(next_including_whitespace(a, ")"), next_including_whitespace(a + 1, ")"), a)
        parse_nth(p) == nth_at(skip_whitespace(p, ")"))
        RECURSIVE parse_one_simple_selector(_, _, _)
        RECURSIVE parse_compound_selector(_, _)
        \* p is the place after ":host(": a selector without a combinator
        inner_compound(compound) == IF compound.r = "some" THEN compound.p ELSE 0
        parse_inner_compound_selector(p) == inner_compound(parse_compound_selector(p, ")"))
        \* p is the place after ":not(": a type selector or one simple selector
        negation_simple(simple) == IF simple.r = "some" THEN simple.p ELSE 0
        negation_type(type) ==
            IF type.r = "err" THEN 0
            ELSE IF type.r = "some" THEN type.p
            ELSE negation_simple(parse_one_simple_selector(type.p, ")", TRUE))
        parse_negation(p) ==
            negation_type(parse_qualified_name(skip_whitespace(p, ")"), ")", FALSE))
        parse_functional_pseudo_class(name, p, inside_negation) ==
            IF name \in {"nth-child", "nth-of-type", "nth-last-child", "nth-last-of-type"}
            THEN parse_nth(p)
            ELSE IF name = "host" THEN parse_inner_compound_selector(p)
            ELSE IF name = "not" /\ ~inside_negation THEN parse_negation(p)
            ELSE 0
        block(e, p) == IF e = 0 THEN Result("err", p) ELSE Result("some", e)
        one_simple_selector(t, after, name, p, inside_negation) ==
            CASE t.k = "idhash" -> Result("some", p + 1)
              [] is_delim(t, ".") -> IF after.k = "ident" THEN Result("some", p + 2)
                                     ELSE Result("err", p)
              [] t.k = "[" -> block(parse_nested_block(parse_attribute_selector(p + 1), "]"), p)
              [] t.k = ":" ->
                    IF after.k = "ident"
                    THEN IF name \in {"first-child", "last-child", "only-child", "root", "empty",
                                      "scope", "first-of-type", "last-of-type", "only-of-type"}
                         THEN Result("some", p + 2)
                         ELSE Result("err", p)
                    ELSE IF after.k = "function"
                    THEN block(parse_nested_block(
                                   parse_functional_pseudo_class(name, p + 2, inside_negation), ")"), p)
                    ELSE Result("err", p)
              [] OTHER -> Result("none", p)
        simple_tokens(t, after, p, inside_negation) ==
            one_simple_selector(t, after, to_ascii_lowercase(after.v), p, inside_negation)
        parse_one_simple_selector(p, stop, inside_negation) ==
            simple_tokens(next_including_whitespace(p, stop), next_including_whitespace(p + 1, stop),
                          p, inside_negation)
        \* the loop of parse_compound_selector over the simple selectors
        RECURSIVE simple_selectors(_, _)
        next_simple(simple, p, stop) ==
            IF simple.r = "err" THEN 0
            ELSE IF simple.r = "none" THEN p
            ELSE simple_selectors(simple.p, stop)
        simple_selectors(p, stop) == next_simple(parse_one_simple_selector(p, stop, FALSE), p, stop)
        compound(type, e, p) ==
            IF e = 0 THEN Result("err", p)
            ELSE IF type.r # "some" /\ e = type.p THEN Result("none", e)
            ELSE Result("some", e)
        parse_type_selector(type, p, stop) ==
            IF type.r = "err" THEN Result("err", p)
            ELSE compound(type, simple_selectors(type.p, stop), p)
        parse_compound_selector(p, stop) ==
            parse_type_selector(parse_qualified_name(skip_whitespace(p, stop), stop, FALSE), p, stop)
        RECURSIVE parse_selector(_, _)
        \* the loop of parse_selector that reads a combinator
        RECURSIVE parse_combinator(_, _, _)
        combinator(t, q, stop, any_whitespace) ==
            IF t.k = "eof" THEN q
            ELSE IF t.k = "ws" THEN parse_combinator(q + 1, stop, TRUE)
            ELSE IF is_delim(t, ">") \/ is_delim(t, "+") \/ is_delim(t, "~")
            THEN parse_selector(q + 1, stop)
            ELSE IF any_whitespace THEN parse_selector(q, stop)
            ELSE q
        parse_combinator(q, stop, any_whitespace) ==
            combinator(next_including_whitespace(q, stop), q, stop, any_whitespace)
        after_compound(c, stop) ==
            IF c.r # "some" THEN 0 ELSE parse_combinator(c.p, stop, FALSE)
        parse_selector(p, stop) == after_compound(parse_compound_selector(p, stop), stop)
        \* SelectorList::parse: each selector is parsed up to the next comma
        \* and must use up what is before it
        RECURSIVE parse(_)
        parse_entirely(q) ==
            IF next_including_whitespace(q, ",").k # "eof" THEN FALSE
            ELSE IF q <= Len(ts) THEN parse(q + 1)
            ELSE TRUE
        parse_until_before(r) == IF r = 0 THEN FALSE ELSE parse_entirely(skip_whitespace(r, ","))
        parse(p) == parse_until_before(parse_selector(p, ","))
        \* what the list matches, when it is made of ids
        hashes == {k \in 1..Len(ts) : ts[k].k = "idhash"}
        together(a, c) == \A k \in a..c : ts[k].k # ","
        plain == /\ \A k \in 1..Len(ts) : ts[k].k \in {"idhash", "ws", ","}
                 /\ \A a, c \in hashes : a < c /\ together(a, c) => \A k \in a..c : ts[k].k # "ws"
        ids == IF ~plain THEN {} ELSE
               {ts[a].v : a \in {a \in hashes :
                                   /\ ts[a].exact
                                   /\ \A c \in hashes :
                                        together(IF a < c THEN a ELSE c, IF a < c THEN c ELSE a)
                                           => ts[c].exact /\ ts[c].v = ts[a].v}}
    IN  [ok |-> parse(1), plain |-> plain, ids |-> ids]

\* Selector::parse(selectors) of scraper (scraper 0.12)
Selector_parse(selectors) == SelectorList_parse(Tokenizer_tokens(selectors))

\* the parse of the selectors made from the method names of the paths below,
\* worked out once
ParsedSelectors ==
    LET names == {"m", ">", "new()", "m.method"}
        made == {"#method\\." \o name : name \in names}
                \cup {"#tymethod\\." \o name \o ", #method\\." \o name : name \in names}
    IN  [selectors \in made |-> Selector_parse(selectors)]

\* Selector::parse(selectors), looked up when it is worked out already
Selector_parsed(selectors) ==
    IF selectors \in DOMAIN ParsedSelectors THEN ParsedSelectors[selectors]
    ELSE Selector_parse(selectors)

\* html.select(&selector).next() of a parsed selector: a list of ids is looked
\* up among the elements that carry an id; for any other selector the page
\* tells what it selects first
Select(html, selectors, parsed) ==
    LET told == {i \in 1..Len(html.matches) : html.matches[i].selectors = selectors}
    IN  IF parsed.plain THEN SelectFirstId(html, parsed.ids)
        ELSE IF told = {} THEN None
        ELSE Some(html.matches[CHOOSE i \in told : \A j \in told : i <= j].element)

\* the Method and TraitMethod arms once the page is parsed: the selector is
\* parsed and unwrapped, then the page is searched
ExtractSelected(kind, cand, html, selectors, parsed) ==
    IF ~parsed.ok THEN Panic
    ELSE IF Select(html, selectors, parsed) = None THEN Ok(None)
    ELSE ExtractAnchored(kind, cand, Unwrap(Select(html, selectors, parsed)))

MethodSelectors(name) == "#method\\." \o Text(name)

ExtractMethod(cand, html) ==
    ExtractSelected("Method", cand, html,
                    MethodSelectors(cand.name), Selector_parsed(MethodSelectors(cand.name)))

TraitMethodSelectors(name) == "#tymethod\\." \o Text(name) \o ", #method\\." \o Text(name)

ExtractTraitMethod(cand, html) ==
    ExtractSelected("TraitMethod", cand, html,
                    TraitMethodSelectors(cand.name), Selector_parsed(TraitMethodSelectors(cand.name)))

\* the match of CrateStructure::get_document on the candidate's shape, once
\* the page is fetched and parsed
Extract(cand, html) ==
    CASE cand.shape = "Module"      -> ExtractModule(cand, html)
      [] cand.shape = "Function"    -> ExtractFunction(cand, html)
      [] cand.shape = "Struct"      -> ExtractStruct(cand, html)
      [] cand.shape = "Trait"       -> ExtractTrait(cand, html)
      [] cand.shape = "Method"      -> ExtractMethod(cand, html)
      [] cand.shape = "TraitMethod" -> ExtractTraitMethod(cand, html)

(***************************************************************************)
(* Follow-up slicing and rendering: search_crate_callback                  *)
(***************************************************************************)
Digits == <<"0", "1", "2", "3", "4", "5", "6", "7", "8", "9">>

DigitValue(c) == (CHOOSE i \in 1..10 : Digits[i] = c) - 1

IsDigit(c) == \E i \in 1..10 : Digits[i] = c

RECURSIVE DecimalValue(_, _)
DecimalValue(ds, acc) ==
    IF ds = <<>> THEN acc ELSE DecimalValue(Tail(ds), acc * 10 + DigitValue(Head(ds)))

\* data.parse::<usize>(): an optional '+' and at least one digit, nothing
\* else (values stay far below usize::MAX here)
ParseUsize(data) ==
    LET ds == IF data # <<>> /\ data[1] = "+" THEN Tail(data) ELSE data
    IN  IF ds # <<>> /\ \A i \in 1..Len(ds) : IsDigit(ds[i])
        THEN Some(DecimalValue(ds, 0))
        ELSE None

RECURSIVE usize_to_string(_)
\* i.to_string() of a usize
usize_to_string(i) ==
    IF i < 10 THEN <<Digits[i + 1]>> ELSE usize_to_string(i \div 10) \o <<Digits[(i % 10) + 1]>>

\* sections.get that gives the last section for an index past the end: a
\* mutant
SectionsGetClamped(sections, index) ==
    IF index < Len(sections) THEN Some(sections[index + 1])
    ELSE IF sections # <<>> THEN Some(sections[Len(sections)]) ELSE None

\* sections.get(index), index counted from 0
SectionsGet(sections, index) ==
    IF index < Len(sections) THEN Some(sections[index + 1]) ELSE None

\* data.parse::<usize>().ok().and_then(|index| sections.get(index))
NumberedSection(doc, data) ==
    LET index == ParseUsize(data)
    IN  IF IsSome(index) THEN SectionsGet(doc.sections, Unwrap(index)) ELSE None

\* the listing of a Module document that data names
ModuleDocuments(doc, data) ==
    CASE data = <<"modules">>    -> Some(doc.modules)
      [] data = <<"structs">>    -> Some(doc.structs)
      [] data = <<"traits">>     -> Some(doc.traits)
      [] data = <<"enums">>      -> Some(doc.enums)
      [] data = <<"macros">>     -> Some(doc.macros)
      [] data = <<"functions">>  -> Some(doc.functions)
      [] data = <<"attributes">> -> Some(doc.attributes)
      [] data = <<"consts">>     -> Some(doc.consts)
      [] OTHER                   -> None

\* StructNamed answering "methods" with a section headed Methods when the
\* document has one: a mutant
StructNamedByHeading(doc, data) ==
    LET headed == {i \in 1..Len(doc.sections) : doc.sections[i][1] = <<"Methods">>}
    IN  CASE data = <<"methods">> ->
               IF headed # {} THEN Some(doc.sections[CHOOSE i \in headed : TRUE])
               ELSE Some(<<Str("Methods"), Join(doc.methods, <<"\n", "\n">>)>>)
          [] data = <<"impls">> -> Some(<<Str("Implementations"),
                                          Join(doc.implementations, <<"\n", "\n">>)>>)
          [] OTHER -> None

StructNamed(doc, data) ==
    CASE data = <<"methods">> -> Some(<<Str("Methods"), Join(doc.methods, <<"\n", "\n">>)>>)
      [] data = <<"impls">>   -> Some(<<Str("Implementations"),
                                        Join(doc.implementations, <<"\n", "\n">>)>>)
      [] OTHER                -> None

TraitNamed(doc, data) ==
    CASE data = <<"rmethods">> -> Some(<<Str("Required Methods"),
                                         Join(doc.required_methods, <<"\n", "\n">>)>>)
      [] data = <<"pmethods">> -> Some(<<Str("Provided Methods"),
                                         Join(doc.provided_methods, <<"\n", "\n">>)>>)
      [] data = <<"impls">>    -> Some(<<Str("Foreign Implementations"),
                                         Join(doc.implementations, <<"\n", "\n">>)>>)
      [] data = <<"implors">>  -> Some(<<Str("Implementors"),
                                         Join(doc.implementors, <<"\n", "\n">>)>>)
      [] OTHER                 -> None

\* Option::or
OrElse(a, b) == IF IsSome(a) THEN a ELSE b

\* what the selector data resolves to in the stored document: the (title,
\* document) pair of a section, or for a Module the listing itself
SliceSection(doc, data) ==
    CASE doc.kind = "Module" -> ModuleDocuments(doc, data)
      [] doc.kind = "Struct" -> OrElse(NumberedSection(doc, data), StructNamed(doc, data))
      [] doc.kind = "Trait"  -> OrElse(NumberedSection(doc, data), TraitNamed(doc, data))
      [] OTHER               -> NumberedSection(doc, data)

PortabilityText(portability) ==
    IF IsSome(portability) THEN <<"<u>(">> \o Unwrap(portability) \o <<")</u>">> ELSE <<>>

items_to_text(item) ==
    <<"<code>">> \o (IF item.deprecated THEN <<"<s>">> \o item.name \o <<"</s>">> ELSE item.name)
    \o <<"</code> ">> \o PortabilityText(item.portability) \o <<"\n">> \o item.description

RECURSIVE DocumentsText(_)
\* the fold of the listing: every item's text followed by a newline
DocumentsText(documents) ==
    IF documents = <<>> THEN <<>>
    ELSE items_to_text(Head(documents)) \o <<"\n">> \o DocumentsText(Tail(documents))

KindLabel(kind) ==
    CASE kind = "Module"      -> "Module <code>"
      [] kind = "Function"    -> "Function <code>"
      [] kind = "Struct"      -> "Struct <code>"
      [] kind = "Trait"       -> "Trait <code>"
      [] kind = "Method"      -> "Method <code>"
      [] kind = "TraitMethod" -> "Trait Method <code>"

\* the text search_crate_callback puts in the edit, section being what
\* SliceSection found
CallbackText(doc, section) ==
    LET head == <<KindLabel(doc.kind)>> \o doc.path \o <<"</code> ">>
                \o PortabilityText(doc.portability)
    IN  CASE doc.kind = "Module" ->
               head \o <<"\n", "\n">> \o DocumentsText(section)
          [] doc.kind \in {"Struct", "Trait"} ->
               head \o <<"\n", "\n", "<b>">> \o section[1] \o <<"</b>", "\n">> \o section[2]
          [] OTHER ->
               head \o <<"\n">> \o doc.definition
               \o <<"\n", "\n", "<b>">> \o section[1] \o <<"</b>", "\n">> \o section[2]

(***************************************************************************)
(* Resolver: the join of the candidates in get_document                    *)
(***************************************************************************)
\* a candidate's future in try_join!: not yet complete, or complete with the
\* Option<CrateDocument> it returned (status is the status its request was
\* answered with, 0 before)
Pending == [done |-> FALSE, status |-> 0, doc |-> None]

Completed(status, doc) == [done |-> TRUE, status |-> status, doc |-> doc]

AllDone(got) == \A i \in 1..Len(got) : got[i].done

\* MatchResults with a match of three arms, the fourth and later results
\* ignored: a mutant
MatchResultsThree(got) ==
    LET hits == {i \in 1..Len(got) : i <= 3 /\ IsSome(got[i].doc)}
    IN  IF hits = {} THEN None
        ELSE got[CHOOSE i \in hits : \A j \in hits : i <= j].doc

\* MatchResults taking the last Some instead of the first: a mutant
MatchResultsLast(got) ==
    LET hits == {i \in 1..Len(got) : IsSome(got[i].doc)}
    IN  IF hits = {} THEN None
        ELSE got[CHOOSE i \in hits : \A j \in hits : i >= j].doc

\* the match on the joined results: the first Some in the order the
\* candidates were handed to try_join!, None when there is none
MatchResults(got) ==
    LET hits == {i \in 1..Len(got) : IsSome(got[i].doc)}
    IN  IF hits = {} THEN None
        ELSE got[CHOOSE i \in hits : \A j \in hits : i <= j].doc

\* is_success without its upper bound: a mutant
is_success_open(status) == status >= 200

\* StatusCode::is_success
is_success(status) == status >= 200 /\ status <= 299

(***************************************************************************)
(* Session Store: the HashMaps behind SEARCH_RESULT and CALLBACK_SESSIONS  *)
(***************************************************************************)
\* an insert into a map that holds one entry, the last: a mutant
MapInsertSingle(map, key, value) ==
    [k \in DOMAIN map |-> IF k = key THEN Some(value) ELSE None]

\* an insert that keeps the value of a key already present: a mutant
MapInsertIfAbsent(map, key, value) ==
    IF map[key] = None THEN [map EXCEPT ![key] = Some(value)] ELSE map

\* HashMap::insert: the value of key is replaced, the other keys keep theirs
MapInsert(map, key, value) == [map EXCEPT ![key] = Some(value)]

\* HashMap::get
MapGet(map, key) == map[key]

\* a key of the message id alone: a mutant
SessionKeyOfId(message) == <<1, message.id>>

\* the key both maps use for a message: (chat_id, message_id)
SessionKey(message) == <<message.chat_id, message.id>>

(***************************************************************************)
(* Bounds and inputs                                                       *)
(***************************************************************************)
\* /docs commands handled in a run, each by its own search_crate future
MaxLookups == 2

\* callback queries handled in a run, each by its own callback_handler future
MaxCallbacks == 1

\* chat ids and message ids the transport hands out
MaxChatId == 2

MaxMessageId == 2

Lookups == 1..MaxLookups

Callbacks == 1..MaxCallbacks

ChatIds == 1..MaxChatId

MessageIds == 1..MaxMessageId

Keys == ChatIds \X MessageIds

\* paths a user asks for
PathStd == <<"std">>

PathCrateItem == <<"k", ":", ":", "S">>

PathStdMethod == <<"std", ":", ":", "S", ":", ":", "m">>

PathCrateDeep == <<"k", ":", ":", "a", ":", ":", "S", ":", ":", "m">>

PathCrate == <<"k">>

\* the empty string as a path
PathEmpty == <<>>

\* the paths get_document is called with when it is called directly
ResolverPaths == {PathEmpty, PathStd, PathCrate, PathCrateItem, PathCrateDeep,
                  <<"std", ":", ":", "S", ":", ":", ">">>,
                  <<"std", ":", ":", "S", ":", ":", "new()">>,
                  <<"std", ":", ":", "S", ":", ":", "m.method">>}

\* the args of a /docs command: none, or the path first
BotArgs == {<<>>, <<PathStd>>, <<PathCrate>>}

SoloArgs == BotArgs \cup {<<PathCrateItem>>, <<PathCrateDeep, PathStd>>}

\* the data of a callback query
BotSelectors == {<<"0">>, <<"2">>, <<"methods">>, <<"modules">>}

SoloSelectors == BotSelectors \cup {<<"1">>, <<"+", "1">>, <<"impls">>, <<"rmethods">>,
                                    <<"structs">>, <<"nope">>, <<>>}

\* what the redirector answers: a status and the Location header
Locations == {<<"https://docs.rs/k/1.0.0/k">>, <<"https://docs.rs/k/1.0.0/k", "/">>,
              <<"https://docs.rs/k/1.0.0/k", "é">>}

OriginResponses ==
    {[status |-> FOUND, location |-> Some(l)] : l \in Locations}
    \cup {[status |-> FOUND, location |-> None], [status |-> 404, location |-> None],
          [status |-> 200, location |-> None]}

\* the statuses a page request is answered with
PageStatuses == {200, 302, 404}

\* a callback query: Option<Message> and Option<String>.  A query comes from a
\* button of a message the bot has sent, so its message is a delivered reply,
\* with the markup it was sent with.
Queries(selectors, sent) ==
    {[message |-> None, data |-> None],
     [message |-> None, data |-> Some(CHOOSE d \in selectors : TRUE)]}
    \cup {[message |-> Some(m), data |-> d] :
              m \in sent, d \in {None} \cup {Some(x) : x \in selectors}}

\* the queries whose message comes without its markup (Message::reply_markup
\* is an Option)
BareQueries(selectors, sent) ==
    {[message |-> Some([m EXCEPT !.reply_markup = None]), data |-> Some(x)] :
        m \in sent, x \in selectors}

TextEl(name, t) ==
    [kind |-> "element", name |-> name, classes |-> {}, texts |-> <<t>>, html |-> t]

Code(texts) == [kind |-> "element", name |-> "code", classes |-> {}, texts |-> texts]

Row(name, short) ==
    [td |-> Some(TextEl("td", name)), deprecated |-> FALSE, portability |-> None,
     short |-> Some(short)]

DocblockEl(children) ==
    [kind |-> "element", name |-> "div", classes |-> {"docblock"}, children |-> children]

\* the element of a method m, which carries the class "method" as well
MethodAnchor ==
    [id |-> <<"method.", "m">>,
     code |-> Some(Code(<< <<"pub fn m(", "&", "self)">> >>)),
     sibs |-> <<[kind |-> "element", name |-> "div", classes |-> {"stability"},
                 strong |-> Some(<<"Deprecated">>)],
                DocblockEl(<<TextEl("p", <<"Does m.">>),
                             TextEl("h1", <<"Errors">>),
                             TextEl("p", <<"None.">>)>>)>>]

\* a page that has every element the extractors look for
RichPage ==
    [pre |-> Some(Code(<< <<"pub fn f", "<", "T", ">", "()">>, <<"where">>, <<" ", "T: Copy">> >>)),
     portability |-> Some(<<"This is supported on Unix only.">>),
     docblock |-> Some(DocblockEl(<<TextEl("p", <<"Intro.">>),
                                    TextEl("h1", <<"Examples">>),
                                    TextEl("p", <<"First.">>),
                                    [kind |-> "text"],
                                    TextEl("div", <<"let a = b ", "&", " c;">>),
                                    TextEl("h1", <<"Panics">>),
                                    TextEl("p", <<"Never.">>)>>)),
     rows |-> [b \in {Buckets[i] : i \in 1..Len(Buckets)} |->
                 CASE b = "modules" -> <<Row(<<"fmt">>, <<"Formatting.">>)>>
                   [] b = "structs" -> <<Row(<<"S">>, <<"A struct.">>), Row(<<"T">>, <<"Another.">>)>>
                   [] OTHER -> <<>>],
     impl_methods |-> <<Code(<< <<"pub fn new() -", ">", " S">> >>)>>,
     in_band |-> <<Code(<< <<"impl Clone for S">> >>), Code(<< <<"impl Debug for S">> >>)>>,
     required |-> <<Code(<< <<"fn m(", "&", "self)">> >>)>>,
     provided |-> <<Code(<< <<"fn p(", "&", "self)">> >>)>>,
     trait_impls |-> <<Code(<< <<"impl S for u8">> >>)>>,
     implementors |-> <<Code(<< <<"impl S for V">> >>)>>,
     anchors |-> <<MethodAnchor>>,
     matches |-> <<[selectors |-> "#method\\.m.method", element |-> MethodAnchor],
                   [selectors |-> "#tymethod\\.m.method, #method\\.m.method",
                    element |-> MethodAnchor]>>]

\* a page of another layout: none of those elements is in it
BarePage ==
    [pre |-> None, portability |-> None, docblock |-> None,
     rows |-> [b \in {Buckets[i] : i \in 1..Len(Buckets)} |-> <<>>],
     impl_methods |-> <<>>, in_band |-> <<>>, required |-> <<>>, provided |-> <<>>,
     trait_impls |-> <<>>, implementors |-> <<>>, anchors |-> <<>>, matches |-> <<>>]

Pages == {RichPage, BarePage}

\* the children a description block is made of: a prose paragraph, a code
\* paragraph and two headings
BlockChildren ==
    {TextEl("p", <<"Intro.">>), TextEl("div", <<"let a = b;">>),
     TextEl("h1", <<"Methods">>), TextEl("h1", <<"Examples">>)}

\* the longest description block
MaxChildren == 4

\* every description block of at most MaxChildren of those children, and
\* two with nodes the walk skips (a text node, a list)
Blocks ==
    UNION {[1..n -> BlockChildren] : n \in 0..MaxChildren}
    \cup {<<[kind |-> "text"], TextEl("h1", <<"Examples">>), [kind |-> "text"],
            TextEl("p", <<"Intro.">>)>>,
          <<TextEl("p", <<"Intro.">>), TextEl("ul", <<"item">>), TextEl("h1", <<"Methods">>),
            TextEl("ul", <<"item">>), TextEl("div", <<"let a = b;">>)>>}

Anchor(id, code, sibs) == [id |-> id, code |-> code, sibs |-> sibs]

\* a page whose description block, and the block after its anchor of m, has
\* these children
BlockPage(children) ==
    [RichPage EXCEPT !.docblock = Some(DocblockEl(children)),
                     !.anchors = <<Anchor(<<"method.", "m">>,
                                          Some(Code(<< <<"pub fn m(", "&", "self)">> >>)),
                                          <<DocblockEl(children)>>)>>,
                     !.matches = <<>>]

Stability ==
    [kind |-> "element", name |-> "div", classes |-> {"stability"},
     strong |-> Some(<<"Deprecated">>)]

Described == DocblockEl(<<TextEl("p", <<"Does m.">>)>>)

\* the anchors of a required method m and of a provided method m
RequiredAnchor ==
    Anchor(<<"tymethod.", "m">>, Some(Code(<< <<"fn m(", "&", "self);">> >>)), <<Described>>)

ProvidedAnchor ==
    Anchor(<<"method.", "m">>, Some(Code(<< <<"fn m(", "&", "self) { }">> >>)), <<>>)

\* what may follow the anchor of m
AnchorSiblings ==
    {<<>>, <<Described>>, <<Stability>>, <<Stability, Described>>,
     <<[kind |-> "text"], Described>>, <<Stability, [kind |-> "text"], Described>>,
     <<TextEl("p", <<"Intro.">>), Described>>}

\* pages by their anchors: none, the anchor of another method, the anchor of
\* m with each continuation, the anchor of m without its code, and both
\* anchors of m in either order
AnchorPages ==
    {[RichPage EXCEPT !.anchors = a, !.matches = <<>>] :
        a \in {<<>>,
               <<Anchor(<<"method.", "x">>, Some(Code(<< <<"fn x()">> >>)), <<Described>>)>>,
               <<Anchor(<<"method.", "m">>, None, <<>>)>>,
               <<RequiredAnchor, ProvidedAnchor>>,
               <<ProvidedAnchor, RequiredAnchor>>}
              \cup {<<Anchor(<<"method.", "m">>, Some(Code(<< <<"fn m()">> >>)), sibs)>> :
                        sibs \in AnchorSiblings}}

\* pages that lack an element an extractor unwraps: the definition, the
\* description block, a row's name cell, a row's summary
MissingPages ==
    {[RichPage EXCEPT !.pre = None],
     [RichPage EXCEPT !.docblock = None],
     [RichPage EXCEPT !.rows["modules"] = <<[td |-> None, deprecated |-> FALSE,
                                             portability |-> None,
                                             short |-> Some(<<"Formatting.">>)]>>],
     [RichPage EXCEPT !.rows["structs"] = <<[td |-> Some(TextEl("td", <<"S">>)),
                                             deprecated |-> FALSE, portability |-> None,
                                             short |-> None]>>],
     BarePage}

WidePages == {BlockPage(children) : children \in Blocks} \cup AnchorPages \cup MissingPages

\* the selectors pressed on the replies to those pages
PageSelectors == {<<"methods">>, <<"0">>, <<"1">>}

\* the pieces of a paragraph with links: text, or a link with its inner text
\* and its target; a target is one chunk
PlainText == [text |-> <<"See ">>, target |-> None]

FragmentLink == [text |-> <<"m">>, target |-> Some("#method.m")]

AbsoluteLink == [text |-> <<"std">>, target |-> Some("https://doc.rust-lang.org/")]

RelativeLink == [text |-> <<"help">>, target |-> Some("help.html")]

Pieces == {PlainText, FragmentLink, AbsoluteLink, RelativeLink}

MaxPieces == 3

\* the paragraphs of at most MaxPieces pieces
PieceLists == UNION {[1..n -> Pieces] : n \in 1..MaxPieces}

\* the inner_html of a piece
PieceHtml(piece) ==
    IF piece.target = None THEN piece.text
    ELSE <<AOpen, Unwrap(piece.target), AClose>> \o piece.text \o <<AEnd>>

\* a p element made of pieces
LinkParagraph(pieces) ==
    [kind |-> "element", name |-> "p", classes |-> {},
     texts |-> [i \in 1..Len(pieces) |-> pieces[i].text],
     html |-> Concat([i \in 1..Len(pieces) |-> PieceHtml(pieces[i])])]

\* a page whose documentation block is one such paragraph
LinkPage(pieces) ==
    [RichPage EXCEPT !.docblock = Some(DocblockEl(<<LinkParagraph(pieces)>>))]

LinkPages == {LinkPage(pieces) : pieces \in PieceLists}

\* a page with one row of its own in each of the eight listings
ListingPage ==
    [RichPage EXCEPT !.rows = [b \in {Buckets[i] : i \in 1..Len(Buckets)} |->
                                  <<Row(<<"a_", b>>, <<"One of the ", b, ".">>)>>]]

SlicePages == {RichPage, ListingPage}

\* the data of the follow-ups on such a page: every key the slicing knows,
\* numbers in and out of range and in the spellings parse::<usize> accepts
\* or refuses, and other strings
SliceSelectors ==
    {<<Buckets[i]>> : i \in 1..Len(Buckets)}
    \cup {<<"methods">>, <<"impls">>, <<"rmethods">>, <<"pmethods">>, <<"implors">>}
    \cup {<<"0">>, <<"1">>, <<"2">>, <<"+", "1">>, <<"0", "1">>, <<"-", "1">>,
          <<"1", " ">>, <<"Methods">>, <<"nope">>, <<>>}

(***************************************************************************)
(* State                                                                   *)
(***************************************************************************)
VARIABLES
    SEARCH_RESULT,      \* mod.rs: the map (chat_id, message_id) -> CrateDocument
    CALLBACK_SESSIONS,  \* util.rs: the map (chat_id, message_id) -> CallbackSession
    readers,            \* the callbacks that hold the read lock of SEARCH_RESULT
    commands_alive,     \* FALSE once a panic has unwound the task that polls
                        \* the command handlers (for_each_concurrent in run)
    delivered,          \* the lookup replies the transport has sent: the messages,
                        \* each with its chat_id, its id and its reply_markup
    last_put,           \* per key, the document of the last insert search_crate made
                        \* for the message with that chat id and message id
    lookup,             \* per /docs command: the state of its search_crate future
    callback            \* per callback query: the state of its callback_handler future

vars == <<SEARCH_RESULT, CALLBACK_SESSIONS, readers, commands_alive, delivered,
          last_put, lookup, callback>>

\* A lookup is suspended at pc:
\*   "idle"       the command has not arrived
\*   "usage"      on the send of the usage text
\*   "typing"     on the send of the chat action
\*   "origin"     on the request to the redirector (get_docs_rs)
\*   "fetch"      on the page requests of its candidates (try_join!)
\*   "reply"      on the send of the document reply
\*   "not_found"  on the send of the not-found reply
\*   "write_doc"  on SEARCH_RESULT.write()
\*   "write_tag"  on CALLBACK_SESSIONS.write()
\*   "done"       the future has completed, "dead" it has panicked
\* crate, cands and got are the locals of get_document; they are kept until
\* the reply is answered.  first is the candidate that completed first with a
\* document, failed the candidate whose request failed (0: none); result is
\* what get_document returned ("", "doc", "none", "err"); reply is the text
\* last sent; returned is what search_crate returned to command_handler and
\* logged what was logged on the way.  What the network answered is kept
\* with the locals: response is the redirector's answer, html the page each
\* candidate parsed, crashed the candidate and the page an unwrap panicked on,
\* urls the URL each candidate requested.
IdleLookup ==
    [pc |-> "idle", chat |-> 0, args |-> <<>>, crate |-> None, cands |-> <<>>, got |-> <<>>,
     first |-> 0, failed |-> 0, result |-> "", document |-> None, message |-> None,
     reply |-> "", returned |-> "", logged |-> "",
     response |-> None, html |-> <<>>, crashed |-> None, urls |-> <<>>]

\* A callback is suspended at pc:
\*   "idle"      the query has not arrived
\*   "read_doc"  on SEARCH_RESULT.read(), in search_crate_callback
\*   "edit"      on the send of the message edit, the read lock held
\*   "done"      the future has completed
\*   "dead"      it has panicked
\* message and data are the query's; visible tells whether the message was a
\* delivered lookup reply when the query arrived; session and found are what
\* the two maps returned; edit is the edit sent.
IdleCallback ==
    [pc |-> "idle", message |-> None, data |-> None, visible |-> FALSE, session |-> None,
     found |-> None, edit |-> None, returned |-> "", logged |-> ""]

Init ==
    /\ SEARCH_RESULT = [k \in Keys |-> None]
    /\ CALLBACK_SESSIONS = [k \in Keys |-> None]
    /\ readers = {}
    /\ commands_alive = TRUE
    /\ delivered = {}
    /\ last_put = [k \in Keys |-> None]
    /\ lookup = [t \in Lookups |-> IdleLookup]
    /\ callback = [c \in Callbacks |-> IdleCallback]

SetLookup(t, r) == lookup' = [lookup EXCEPT ![t] = r]

SetCallback(c, r) == callback' = [callback EXCEPT ![c] = r]

StoreUnchanged == UNCHANGED <<SEARCH_RESULT, CALLBACK_SESSIONS, readers, last_put>>

\* the keys of the replies sent
DeliveredKeys == {<<m.chat_id, m.id>> : m \in delivered}

\* FALSE once a panic has unwound the task that polls the callback handlers
\* (for_each_concurrent in run)
callbacks_alive == \A c \in Callbacks : callback[c].pc # "dead"

\* SEARCH_RESULT.read() is granted in the order of arrival: not while a
\* search_crate waits for the write lock behind the readers
ReadGranted ==
    ~(readers # {} /\ commands_alive /\ \E t \in Lookups : lookup[t].pc = "write_doc")

(***************************************************************************)
(* search_crate and get_document                                           *)
(***************************************************************************)
\* Returned issuing the candidates' requests again when none gave a
\* document: a mutant
ReturnedRetries(l, document) ==
    IF IsSome(document)
    THEN [l EXCEPT !.pc = "reply", !.result = "doc", !.document = document]
    ELSE IF l.cands # <<>> /\ l.result = ""
    THEN [l EXCEPT !.pc = "fetch", !.result = "none",
                   !.got = [i \in 1..Len(l.cands) |-> Pending]]
    ELSE [l EXCEPT !.pc = "not_found", !.result = "none"]

\* the buttons of the keyboard search_crate sends with a Module document: one
\* per listing that is not empty, each with its label and its callback data
ModuleButtons ==
    <<[bucket |-> "modules",    label |-> "Modules",    data |-> <<"modules">>],
      [bucket |-> "structs",    label |-> "Structs",    data |-> <<"structs">>],
      [bucket |-> "traits",     label |-> "Traits",     data |-> <<"traits">>],
      [bucket |-> "enums",      label |-> "Enums",      data |-> <<"enums">>],
      [bucket |-> "macros",     label |-> "Macros",     data |-> <<"macros">>],
      [bucket |-> "functions",  label |-> "Functions",  data |-> <<"functions">>],
      [bucket |-> "attributes", label |-> "Attributes", data |-> <<"attributes">>],
      [bucket |-> "consts",     label |-> "Consts",     data |-> <<"modules">>]>>

\* the markup sent with a Module document: the buttons pushed, cut in rows of
\* two by chunks(2)
ModuleKeyboard(doc) ==
    LET shown == SelectSeq(ModuleButtons, LAMBDA b : doc[b.bucket] # <<>>)
        inline_keyboard == [i \in 1..Len(shown) |->
                               [label |-> shown[i].label, data |-> shown[i].data]]
        n == Len(inline_keyboard)
    IN  [r \in 1..((n + 1) \div 2) |->
            SubSeq(inline_keyboard, 2 * r - 1, IF 2 * r <= n THEN 2 * r ELSE n)]

\* SectionButtons numbering the sections from one: a mutant
SectionButtonsFromOne(doc) ==
    [i \in 1..Len(doc.sections) |->
        <<[label |-> doc.sections[i][1], data |-> usize_to_string(i)]>>]

\* the markup sent with a document that is not a Module, a row of one button
\* per section: for (i, (key, _)) in sections.iter().enumerate(), the button
\* labelled key with the callback data i.to_string()
SectionButtons(doc) ==
    [i \in 1..Len(doc.sections) |->
        <<[label |-> doc.sections[i][1], data |-> usize_to_string(i - 1)]>>]

\* the markup search_crate sends with a document: InlineKeyboardMarkup, the
\* rows of buttons.  A Struct has a row for its two listings and a Trait a
\* row for each of its four before the rows of the sections.
Keyboard(doc) ==
    LET button(label, data) == [label |-> label, data |-> <<data>>]
    IN  CASE doc.kind = "Module" -> ModuleKeyboard(doc)
          [] doc.kind = "Struct" ->
                 <<<<button("Methods", "methods"), button("Impls", "impls")>>>>
                     \o SectionButtons(doc)
          [] doc.kind = "Trait" ->
                 << <<button("Required Methods", "rmethods")>>,
                    <<button("Provided Methods", "pmethods")>>,
                    <<button("Implementations", "impls")>>,
                    <<button("Implementors", "implors")>> >>
                     \o SectionButtons(doc)
          [] OTHER -> SectionButtons(doc)

\* get_document returns a result: search_crate logs an Err and returns Ok(()),
\* sends the not-found text for Ok(None), sends the document for Ok(Some)
Returned(l, document) ==
    IF IsSome(document)
    THEN [l EXCEPT !.pc = "reply", !.result = "doc", !.document = document]
    ELSE [l EXCEPT !.pc = "not_found", !.result = "none"]

ResolveFailed(l) ==
    [l EXCEPT !.pc = "done", !.cands = <<>>, !.urls = <<>>, !.got = <<>>, !.crate = None,
              !.response = None, !.html = <<>>,
              !.result = "err", !.logged = "Failed to get information", !.returned = "Ok"]

Panicked(l) ==
    [l EXCEPT !.pc = "dead", !.cands = <<>>, !.urls = <<>>, !.got = <<>>, !.crate = None,
              !.html = <<>>, !.returned = "panic"]

\* the candidates are built and their requests issued
Dispatch(l, tree, crate) ==
    LET cands == Candidates(tree)
    IN  [l EXCEPT !.pc = "fetch", !.crate = crate, !.cands = cands,
                  !.urls = [i \in 1..Len(cands) |-> CandidateUrl(cands[i], Unwrap(crate))],
                  !.got = [i \in 1..Len(cands) |-> Pending],
                  !.html = [i \in 1..Len(cands) |-> None]]

\* get_document from its entry to its first await
EnterGetDocument(l) ==
    LET tree == Split(l.args[1])
    IN  IF tree = <<>> THEN Returned(l, None)
        ELSE LET std == get_std_rs(tree[1])
             IN  IF IsSome(std) THEN Dispatch(l, tree, std)
                 ELSE [l EXCEPT !.pc = "origin"]

\* get_document is called with path, by a caller that needs no command
GetDocument(t, path) ==
    /\ commands_alive
    /\ lookup[t].pc = "idle"
    /\ \A u \in Lookups : u < t => lookup[u].pc # "idle"
    /\ SetLookup(t, EnterGetDocument([lookup[t] EXCEPT !.args = <<path>>]))
    /\ UNCHANGED <<delivered, callback, commands_alive>>
    /\ StoreUnchanged

\* a /docs command arrives from chat with args
CommandDocs(t, chat, args) ==
    /\ commands_alive
    /\ lookup[t].pc = "idle"
    /\ \A u \in Lookups : u < t => lookup[u].pc # "idle"
    /\ SetLookup(t, [lookup[t] EXCEPT !.pc = IF args = <<>> THEN "usage" ELSE "typing",
                                      !.chat = chat, !.args = args])
    /\ UNCHANGED <<delivered, callback, commands_alive>>
    /\ StoreUnchanged

\* the send of the usage text is answered
UsageSent(t, ok) ==
    /\ commands_alive
    /\ lookup[t].pc = "usage"
    /\ SetLookup(t, [lookup[t] EXCEPT !.pc = "done",
                                      !.reply = IF ok THEN "usage" ELSE "",
                                      !.returned = IF ok THEN "Ok" ELSE "Err",
                                      !.logged = IF ok THEN "" ELSE "Error"])
    /\ UNCHANGED <<delivered, callback, commands_alive>>
    /\ StoreUnchanged

\* the send of the chat action is answered
TypingSent(t, ok) ==
    /\ commands_alive
    /\ lookup[t].pc = "typing"
    /\ SetLookup(t, IF ok THEN EnterGetDocument(lookup[t])
                    ELSE [lookup[t] EXCEPT !.pc = "done", !.returned = "Err",
                                           !.logged = "Error"])
    /\ UNCHANGED <<delivered, callback, commands_alive>>
    /\ StoreUnchanged

\* the request to the redirector fails
OriginFailed(t) ==
    /\ commands_alive
    /\ lookup[t].pc = "origin"
    /\ SetLookup(t, ResolveFailed(lookup[t]))
    /\ UNCHANGED <<delivered, callback, commands_alive>>
    /\ StoreUnchanged

\* OriginAnswered dispatching the candidates under the requested URL when the
\* redirector does not redirect: a mutant
OriginAnsweredDispatches(t, response) ==
    /\ commands_alive
    /\ lookup[t].pc = "origin"
    /\ LET r == DocsRsResult(response)
           l == [lookup[t] EXCEPT !.response = Some(response)]
           tree == Split(l.args[1])
       IN  /\ SetLookup(t, IF r.tag = "panic" THEN Panicked(l)
                           ELSE IF IsSome(r.crate) THEN Dispatch(l, tree, r.crate)
                           ELSE Dispatch(l, tree, Some([url |-> DocsRsUrl(tree[1]) \o <<"/">>])))
           /\ commands_alive' = (r.tag # "panic")
    /\ UNCHANGED <<delivered, callback>>
    /\ StoreUnchanged

\* the redirector answers
OriginAnswered(t, response) ==
    /\ commands_alive
    /\ lookup[t].pc = "origin"
    /\ LET r == DocsRsResult(response)
           l == [lookup[t] EXCEPT !.response = Some(response)]
       IN  /\ SetLookup(t, IF r.tag = "panic" THEN Panicked(l)
                           ELSE IF IsSome(r.crate) THEN Dispatch(l, Split(l.args[1]), r.crate)
                           ELSE Returned(l, None))
           /\ commands_alive' = (r.tag # "panic")
    /\ UNCHANGED <<delivered, callback>>
    /\ StoreUnchanged

\* CandidateReturns as a select over the candidates, the first document
\* ending the join: a mutant
CandidateReturnsFirstWins(l, i, status, doc) ==
    LET got == [l.got EXCEPT ![i] = Completed(status, doc)]
        m == [l EXCEPT !.got = got,
                       !.first = IF l.first = 0 /\ IsSome(doc) THEN i ELSE l.first]
    IN  IF IsSome(doc) THEN Returned(m, doc)
        ELSE IF AllDone(got) THEN Returned(m, None) ELSE m

\* CandidateReturns ending the join as soon as no candidate still in flight
\* could take precedence over a document already returned: a mutant
CandidateReturnsSettled(l, i, status, doc) ==
    LET got == [l.got EXCEPT ![i] = Completed(status, doc)]
        m == [l EXCEPT !.got = got,
                       !.first = IF l.first = 0 /\ IsSome(doc) THEN i ELSE l.first]
        settled == \E h \in 1..Len(got) :
                       IsSome(got[h].doc) /\ \A j \in 1..(h - 1) : got[j].done
    IN  IF AllDone(got) \/ settled THEN Returned(m, MatchResults(got)) ELSE m

\* CandidateReturns handing back, once all are complete, the document that
\* arrived first: a mutant
CandidateReturnsByArrival(l, i, status, doc) ==
    LET got == [l.got EXCEPT ![i] = Completed(status, doc)]
        m == [l EXCEPT !.got = got,
                       !.first = IF l.first = 0 /\ IsSome(doc) THEN i ELSE l.first]
    IN  IF AllDone(got)
        THEN Returned(m, IF m.first = 0 THEN None ELSE got[m.first].doc)
        ELSE m

\* candidate i, answered with status, is complete with doc: the join ends when
\* it was the last one
CandidateReturns(l, i, status, doc) ==
    LET got == [l.got EXCEPT ![i] = Completed(status, doc)]
        m == [l EXCEPT !.got = got,
                       !.first = IF l.first = 0 /\ IsSome(doc) THEN i ELSE l.first]
    IN  IF AllDone(got) THEN Returned(m, MatchResults(got)) ELSE m

\* FetchFailed with the error taken for an absent page: a mutant
FetchFailedAsAbsent(t, i) ==
    /\ commands_alive
    /\ lookup[t].pc = "fetch"
    /\ i \in 1..Len(lookup[t].got)
    /\ ~lookup[t].got[i].done
    /\ SetLookup(t, CandidateReturns([lookup[t] EXCEPT !.failed = i], i, 0, None))
    /\ UNCHANGED <<delivered, callback, commands_alive>>
    /\ StoreUnchanged

\* the page request of candidate i, or the read of its body, fails: its `?`
\* returns the error and try_join! returns it at once
FetchFailed(t, i) ==
    /\ commands_alive
    /\ lookup[t].pc = "fetch"
    /\ i \in 1..Len(lookup[t].got)
    /\ ~lookup[t].got[i].done
    /\ SetLookup(t, ResolveFailed([lookup[t] EXCEPT !.failed = i]))
    /\ UNCHANGED <<delivered, callback, commands_alive>>
    /\ StoreUnchanged

\* the page request of candidate i is answered with a status that is not a
\* success: the candidate returns Ok(None)
FetchAbsent(t, i, status) ==
    /\ commands_alive
    /\ lookup[t].pc = "fetch"
    /\ i \in 1..Len(lookup[t].got)
    /\ lookup[t].got[i] = Pending
    /\ ~is_success(status)
    /\ SetLookup(t, CandidateReturns(lookup[t], i, status, None))
    /\ UNCHANGED <<delivered, callback, commands_alive>>
    /\ StoreUnchanged

\* the page request of candidate i is answered with a success status: the
\* candidate goes on to read the body (response.text().await)
FetchHead(t, i, status) ==
    /\ commands_alive
    /\ lookup[t].pc = "fetch"
    /\ i \in 1..Len(lookup[t].got)
    /\ lookup[t].got[i] = Pending
    /\ is_success(status)
    /\ SetLookup(t, [lookup[t] EXCEPT !.got[i].status = status])
    /\ UNCHANGED <<delivered, callback, commands_alive>>
    /\ StoreUnchanged

\* the body of the page of candidate i, answered with status before, is read:
\* the page html is parsed and read
FetchPage(t, i, status, html) ==
    /\ commands_alive
    /\ lookup[t].pc = "fetch"
    /\ i \in 1..Len(lookup[t].got)
    /\ ~lookup[t].got[i].done
    /\ lookup[t].got[i].status = status
    /\ is_success(status)
    /\ LET l == lookup[t]
           r == Extract(l.cands[i], html)
       IN  /\ SetLookup(t, IF r.tag = "panic"
                           THEN Panicked([l EXCEPT !.crashed = Some([cand |-> l.cands[i],
                                                                     html |-> html])])
                           ELSE CandidateReturns([l EXCEPT !.html[i] = Some(html)],
                                                 i, status, r.doc))
           /\ commands_alive' = (r.tag # "panic")
    /\ UNCHANGED <<delivered, callback>>
    /\ StoreUnchanged

\* the send of the not-found text is answered
NotFoundSent(t, ok) ==
    /\ commands_alive
    /\ lookup[t].pc = "not_found"
    /\ SetLookup(t, [lookup[t] EXCEPT !.pc = "done", !.cands = <<>>, !.urls = <<>>, !.got = <<>>,
                                      !.crate = None, !.response = None, !.html = <<>>,
                                      !.reply = IF ok THEN "not_found" ELSE "",
                                      !.returned = IF ok THEN "Ok" ELSE "Err",
                                      !.logged = IF ok THEN "" ELSE "Error"])
    /\ UNCHANGED <<delivered, callback, commands_alive>>
    /\ StoreUnchanged

\* ReplyFailed with the error of the send dropped and the inserts made for a
\* message never sent: a mutant
ReplyFailedWrites(t) ==
    /\ commands_alive
    /\ lookup[t].pc = "reply"
    /\ SetLookup(t, [lookup[t] EXCEPT !.pc = "write_doc", !.cands = <<>>, !.urls = <<>>, !.got = <<>>,
                                      !.crate = None, !.response = None, !.html = <<>>, !.logged = "Error",
                                      !.message = Some([chat_id |-> lookup[t].chat,
                                                        id |-> 1])])
    /\ UNCHANGED <<delivered, callback, commands_alive>>
    /\ StoreUnchanged

\* the send of the document reply fails
ReplyFailed(t) ==
    /\ commands_alive
    /\ lookup[t].pc = "reply"
    /\ SetLookup(t, [lookup[t] EXCEPT !.pc = "done", !.cands = <<>>, !.urls = <<>>, !.got = <<>>,
                                      !.crate = None, !.response = None, !.html = <<>>, !.returned = "Err",
                                      !.logged = "Error"])
    /\ UNCHANGED <<delivered, callback, commands_alive>>
    /\ StoreUnchanged

\* the send of the document reply is answered with the message sent, whose id
\* the transport chose
ReplySent(t, id) ==
    /\ commands_alive
    /\ lookup[t].pc = "reply"
    /\ LET inline_message == [chat_id |-> lookup[t].chat, id |-> id]
           markup == Keyboard(Unwrap(lookup[t].document))
       IN  /\ SetLookup(t, [lookup[t] EXCEPT !.pc = "write_doc", !.cands = <<>>, !.urls = <<>>,
                                             !.got = <<>>, !.crate = None,
                                             !.response = None, !.html = <<>>,
                                             !.reply = "doc",
                                             !.message = Some(inline_message)])
           /\ delivered' = delivered \cup {[chat_id |-> lookup[t].chat, id |-> id,
                                             reply_markup |-> Some(markup)]}
    /\ UNCHANGED <<callback, commands_alive>>
    /\ StoreUnchanged

\* WriteDocument inserting the Docs tag where the document should go: a
\* mutant
WriteDocumentTagFirst(t) ==
    /\ commands_alive
    /\ lookup[t].pc = "write_doc"
    /\ readers = {}
    /\ CALLBACK_SESSIONS' = MapInsert(CALLBACK_SESSIONS,
                                      SessionKey(Unwrap(lookup[t].message)), "Docs")
    /\ SetLookup(t, [lookup[t] EXCEPT !.pc = "write_tag"])
    /\ UNCHANGED <<SEARCH_RESULT, readers, delivered, last_put, callback, commands_alive>>

\* the write lock of SEARCH_RESULT is granted (no reader holds it): the
\* document is inserted under the reply's key and the lock dropped
WriteDocument(t) ==
    /\ commands_alive
    /\ lookup[t].pc = "write_doc"
    /\ readers = {}
    /\ SEARCH_RESULT' = MapInsert(SEARCH_RESULT, SessionKey(Unwrap(lookup[t].message)),
                                  Unwrap(lookup[t].document))
    /\ last_put' = [last_put EXCEPT ![<<lookup[t].chat, Unwrap(lookup[t].message).id>>] =
                                         lookup[t].document]
    /\ SetLookup(t, [lookup[t] EXCEPT !.pc = "write_tag"])
    /\ UNCHANGED <<CALLBACK_SESSIONS, readers, delivered, callback, commands_alive>>

\* the write lock of CALLBACK_SESSIONS is granted: the Docs tag is inserted
\* and search_crate returns Ok(())
WriteSession(t) ==
    /\ commands_alive
    /\ lookup[t].pc = "write_tag"
    /\ CALLBACK_SESSIONS' = MapInsert(CALLBACK_SESSIONS,
                                      SessionKey(Unwrap(lookup[t].message)), "Docs")
    /\ SetLookup(t, [lookup[t] EXCEPT !.pc = "done", !.returned = "Ok"])
    /\ UNCHANGED <<SEARCH_RESULT, readers, delivered, last_put, callback, commands_alive>>

(***************************************************************************)
(* callback_handler and search_crate_callback                              *)
(***************************************************************************)
\* CallbackQuery calling search_crate_callback whether or not the message has
\* a session tag: a mutant
CallbackQueryUntagged(c, message, data) ==
    /\ callbacks_alive
    /\ callback[c].pc = "idle"
    /\ \A d \in Callbacks : d < c => callback[d].pc # "idle"
    /\ LET q == [callback[c] EXCEPT !.message = message, !.data = data,
                                    !.visible = /\ IsSome(message)
                                                /\ SessionKey(Unwrap(message)) \in DeliveredKeys]
       IN  IF IsSome(message) /\ IsSome(data)
           THEN LET session == MapGet(CALLBACK_SESSIONS, SessionKey(Unwrap(message)))
                IN  SetCallback(c, [q EXCEPT !.session = session, !.pc = "read_doc"])
           ELSE SetCallback(c, [q EXCEPT !.pc = "done"])
    /\ UNCHANGED <<delivered, lookup, commands_alive>>
    /\ StoreUnchanged

\* a callback query arrives: callback_handler needs its message and its data,
\* reads the session tag of the message and calls search_crate_callback for
\* a Docs tag
CallbackQuery(c, message, data) ==
    /\ callbacks_alive
    /\ callback[c].pc = "idle"
    /\ \A d \in Callbacks : d < c => callback[d].pc # "idle"
    /\ LET q == [callback[c] EXCEPT !.message = message, !.data = data,
                                    !.visible = /\ IsSome(message)
                                                /\ SessionKey(Unwrap(message)) \in DeliveredKeys]
       IN  IF IsSome(message) /\ IsSome(data)
           THEN LET session == MapGet(CALLBACK_SESSIONS, SessionKey(Unwrap(message)))
                IN  SetCallback(c, [q EXCEPT !.session = session,
                                             !.pc = IF session = Some("Docs") THEN "read_doc"
                                                    ELSE "done"])
           ELSE SetCallback(c, [q EXCEPT !.pc = "done"])
    /\ UNCHANGED <<delivered, lookup, commands_alive>>
    /\ StoreUnchanged

\* SearchCrateCallback sending an edit for a selector without a section: a
\* mutant
SearchCrateCallbackEdits(c) ==
    /\ callbacks_alive
    /\ ReadGranted
    /\ callback[c].pc = "read_doc"
    /\ LET q == callback[c]
           message == Unwrap(q.message)
           search_result == MapGet(SEARCH_RESULT, SessionKey(message))
       IN  /\ SetCallback(c, [q EXCEPT !.pc = "edit", !.found = search_result,
                                       !.edit = Some([chat_id |-> message.chat_id,
                                                      message_id |-> message.id,
                                                      text |-> <<>>,
                                                      reply_markup |->
                                                          Unwrap(message.reply_markup)])])
           /\ readers' = readers \cup {c}
    /\ UNCHANGED <<SEARCH_RESULT, CALLBACK_SESSIONS, delivered, last_put, lookup,
                   commands_alive>>

\* SearchCrateCallback slicing the document of any message of the chat that
\* has one: a mutant
SearchCrateCallbackOfChat(c) ==
    /\ callbacks_alive
    /\ ReadGranted
    /\ callback[c].pc = "read_doc"
    /\ LET q == callback[c]
           message == Unwrap(q.message)
           held == {k \in Keys : k[1] = message.chat_id /\ IsSome(SEARCH_RESULT[k])}
           search_result == IF held = {} THEN None
                            ELSE SEARCH_RESULT[CHOOSE k \in held : \A j \in held : k[2] <= j[2]]
           section == IF IsSome(search_result)
                      THEN SliceSection(Unwrap(search_result), Unwrap(q.data))
                      ELSE None
       IN  IF IsSome(section)
           THEN /\ SetCallback(c, [q EXCEPT !.pc = "edit", !.found = search_result,
                                         !.edit = Some([chat_id |-> message.chat_id,
                                                        message_id |-> message.id,
                                                        text |-> CallbackText(Unwrap(search_result),
                                                                              Unwrap(section)),
                                                        reply_markup |->
                                                            Unwrap(message.reply_markup)])])
                /\ readers' = readers \cup {c}
           ELSE /\ SetCallback(c, [q EXCEPT !.pc = "done", !.found = search_result,
                                         !.returned = "Ok"])
                /\ readers' = readers
    /\ UNCHANGED <<SEARCH_RESULT, CALLBACK_SESSIONS, delivered, last_put, lookup,
                   commands_alive>>

\* the read lock of SEARCH_RESULT is granted: the document of the message is
\* looked up and sliced by the data, and the edit is sent when there is a
\* section, with the markup of the message; otherwise the lock is dropped and
\* Ok(()) returned.  With a section and a message without markup,
\* `message.reply_markup().unwrap()` panics: the unwind drops the guard and
\* the task that polls the callback handlers, and with it the other
\* follow-ups and their guards.
SearchCrateCallback(c) ==
    /\ callbacks_alive
    /\ ReadGranted
    /\ callback[c].pc = "read_doc"
    /\ LET q == callback[c]
           message == Unwrap(q.message)
           search_result == MapGet(SEARCH_RESULT, SessionKey(message))
           section == IF IsSome(search_result)
                      THEN SliceSection(Unwrap(search_result), Unwrap(q.data))
                      ELSE None
       IN  IF IsSome(section)
           THEN IF IsSome(message.reply_markup)
                THEN /\ SetCallback(c, [q EXCEPT
                            !.pc = "edit", !.found = search_result,
                            !.edit = Some([chat_id |-> message.chat_id,
                                           message_id |-> message.id,
                                           text |-> CallbackText(Unwrap(search_result),
                                                                 Unwrap(section)),
                                           reply_markup |-> Unwrap(message.reply_markup)])])
                     /\ readers' = readers \cup {c}
                ELSE /\ SetCallback(c, [q EXCEPT !.pc = "dead", !.found = search_result,
                                                 !.returned = "panic"])
                     /\ readers' = {}
           ELSE /\ SetCallback(c, [q EXCEPT !.pc = "done", !.found = search_result,
                                         !.returned = "Ok"])
                /\ readers' = readers
    /\ UNCHANGED <<SEARCH_RESULT, CALLBACK_SESSIONS, delivered, last_put, lookup,
                   commands_alive>>

\* EditSent dropping the session of a message whose edit failed: a mutant
EditSentForgets(c, ok) ==
    /\ callbacks_alive
    /\ callback[c].pc = "edit"
    /\ SetCallback(c, [callback[c] EXCEPT !.pc = "done",
                                          !.returned = IF ok THEN "Ok" ELSE "Err",
                                          !.logged = IF ok THEN "" ELSE "Error"])
    /\ readers' = readers \ {c}
    /\ SEARCH_RESULT' = IF ok THEN SEARCH_RESULT
                        ELSE [SEARCH_RESULT EXCEPT
                                 ![SessionKey(Unwrap(callback[c].message))] = None]
    /\ UNCHANGED <<CALLBACK_SESSIONS, delivered, last_put, lookup, commands_alive>>

\* the send of the edit is answered: the read lock is dropped
EditSent(c, ok) ==
    /\ callbacks_alive
    /\ callback[c].pc = "edit"
    /\ SetCallback(c, [callback[c] EXCEPT !.pc = "done",
                                          !.returned = IF ok THEN "Ok" ELSE "Err",
                                          !.logged = IF ok THEN "" ELSE "Error"])
    /\ readers' = readers \ {c}
    /\ UNCHANGED <<SEARCH_RESULT, CALLBACK_SESSIONS, delivered, last_put, lookup,
                   commands_alive>>

\* the completed future of a callback is dropped by for_each_concurrent
CallbackDropped(c) ==
    /\ callbacks_alive
    /\ callback[c].pc = "done"
    /\ SetCallback(c, IdleCallback)
    /\ UNCHANGED <<delivered, lookup, commands_alive>>
    /\ StoreUnchanged

(***************************************************************************)
(* The other commands.  /crate: crate_information and get_information.  A  *)
(* /crate command is one more future of the for_each_concurrent that polls *)
(* the /docs commands; it takes a slot of lookup, with positions of its    *)
(* own: crate_usage, crate_typing, crate_heads (the try_join! of the       *)
(* summary and owner requests, got[1] and got[2]), crate_owner and         *)
(* crate_summary (their bodies read as JSON), crate_deps and               *)
(* crate_deps_json (the dependencies request and its body), crate_reply    *)
(* and crate_absent (the sends of the information and of the not-found     *)
(* text).  response holds the number of owners once it is read.  A /help   *)
(* command is one more such future, waiting at help for its send.          *)
(***************************************************************************)
\* command_handler receives /help: the descriptions of the commands are sent
CommandHelp(t, chat) ==
    /\ commands_alive
    /\ lookup[t].pc = "idle"
    /\ \A u \in Lookups : u < t => lookup[u].pc # "idle"
    /\ SetLookup(t, [lookup[t] EXCEPT !.pc = "help", !.chat = chat])
    /\ UNCHANGED <<delivered, callback, commands_alive>>
    /\ StoreUnchanged

\* the send of the descriptions is answered; a failed send is logged
HelpSent(t, ok) ==
    /\ commands_alive
    /\ lookup[t].pc = "help"
    /\ SetLookup(t, IF ok
                    THEN [lookup[t] EXCEPT !.pc = "done", !.reply = "help", !.returned = "Ok"]
                    ELSE [lookup[t] EXCEPT !.pc = "done", !.returned = "Err",
                                           !.logged = "Error"])
    /\ UNCHANGED <<delivered, callback, commands_alive>>
    /\ StoreUnchanged

\* command_handler receives /crate: without args the usage text is sent,
\* otherwise the chat action
CommandCrate(t, chat, args) ==
    /\ commands_alive
    /\ lookup[t].pc = "idle"
    /\ \A u \in Lookups : u < t => lookup[u].pc # "idle"
    /\ SetLookup(t, [lookup[t] EXCEPT !.pc = IF args = <<>> THEN "crate_usage"
                                             ELSE "crate_typing",
                                      !.chat = chat, !.args = args])
    /\ UNCHANGED <<delivered, callback, commands_alive>>
    /\ StoreUnchanged

\* a send of crate_information is answered: after the chat action the two
\* requests of get_information are issued, after any other send the handler
\* returns; a failed send is returned through `?` and logged
CrateSent(t, ok) ==
    /\ commands_alive
    /\ lookup[t].pc \in {"crate_usage", "crate_typing", "crate_reply", "crate_absent"}
    /\ LET l == lookup[t]
       IN  SetLookup(t, IF ~ok
                        THEN [l EXCEPT !.pc = "done", !.got = <<>>, !.response = None,
                                       !.returned = "Err", !.logged = "Error"]
                        ELSE IF l.pc = "crate_typing"
                        THEN [l EXCEPT !.pc = "crate_heads", !.got = <<Pending, Pending>>]
                        ELSE [l EXCEPT !.pc = "done", !.got = <<>>, !.response = None,
                                       !.reply = CASE l.pc = "crate_usage" -> "usage"
                                                   [] l.pc = "crate_reply" -> "crate"
                                                   [] OTHER -> "not_found",
                                       !.returned = "Ok"])
    /\ UNCHANGED <<delivered, callback, commands_alive>>
    /\ StoreUnchanged

\* what get_information awaits comes: request i of the try_join! is answered
\* with status, a body is read as JSON (owners is the length of the owner
\* list, newest whether the versions hold the newest one), the dependencies
\* request is answered; or, with ok FALSE, it fails, and the error is logged
\* by crate_information, which returns Ok.  With the information in hand
\* crate_information splits the owner list at 1, which panics when the list
\* is empty.
GetInformation(t, ok, i, status, owners, newest) ==
    /\ commands_alive
    /\ lookup[t].pc \in {"crate_heads", "crate_owner", "crate_summary", "crate_deps",
                         "crate_deps_json"}
    /\ lookup[t].pc = "crate_heads" => i \in 1..2 /\ ~lookup[t].got[i].done
    /\ LET l == lookup[t]
           is_client_error(s) == s >= 400 /\ s <= 499
           got == [l.got EXCEPT ![i] = Completed(status, None)]
           absent == [l EXCEPT !.pc = "crate_absent", !.got = <<>>, !.response = None]
           next == CASE l.pc = "crate_heads" ->
                          IF ~AllDone(got) THEN [l EXCEPT !.got = got]
                          ELSE IF is_client_error(got[1].status) \/ is_client_error(got[2].status)
                          THEN absent
                          ELSE [l EXCEPT !.pc = "crate_owner", !.got = got]
                     [] l.pc = "crate_owner" ->
                          [l EXCEPT !.pc = "crate_summary", !.response = Some([owners |-> owners])]
                     [] l.pc = "crate_summary" ->
                          IF newest THEN [l EXCEPT !.pc = "crate_deps"] ELSE absent
                     [] l.pc = "crate_deps" -> [l EXCEPT !.pc = "crate_deps_json"]
                     [] l.pc = "crate_deps_json" ->
                          IF Unwrap(l.response).owners = 0
                          THEN [l EXCEPT !.pc = "dead", !.got = <<>>, !.returned = "panic"]
                          ELSE [l EXCEPT !.pc = "crate_reply", !.got = <<>>]
       IN  /\ SetLookup(t, IF ok THEN next
                           ELSE [l EXCEPT !.pc = "done", !.got = <<>>, !.response = None,
                                          !.logged = "Failed to get information",
                                          !.returned = "Ok"])
           /\ commands_alive' = ~(ok /\ next.pc = "dead")
    /\ UNCHANGED <<delivered, callback>>
    /\ StoreUnchanged

(***************************************************************************)
(* Specifications                                                          *)
(***************************************************************************)
LookupStep(t) ==
    \/ \E ok \in BOOLEAN : UsageSent(t, ok)
    \/ \E ok \in BOOLEAN : TypingSent(t, ok)
    \/ OriginFailed(t)
    \/ \E response \in OriginResponses : OriginAnswered(t, response)
    \/ \E i \in 1..Len(Shapes) : FetchFailed(t, i)
    \/ \E i \in 1..Len(Shapes), status \in PageStatuses : FetchAbsent(t, i, status)
    \/ \E i \in 1..Len(Shapes), status \in PageStatuses : FetchHead(t, i, status)
    \/ \E i \in 1..Len(Shapes), status \in PageStatuses, html \in Pages :
          FetchPage(t, i, status, html)
    \/ \E ok \in BOOLEAN : NotFoundSent(t, ok)
    \/ ReplyFailed(t)
    \/ \E id \in MessageIds : ReplySent(t, id)
    \/ WriteDocument(t)
    \/ WriteSession(t)

CallbackStep(c) ==
    \/ SearchCrateCallback(c)
    \/ \E ok \in BOOLEAN : EditSent(c, ok)
    \/ CallbackDropped(c)

\* the bot: concurrent lookups and follow-ups over the short paths
Next ==
    \/ \E t \in Lookups, chat \in ChatIds, args \in BotArgs : CommandDocs(t, chat, args)
    \/ \E t \in Lookups : LookupStep(t)
    \/ \E c \in Callbacks, q \in Queries(BotSelectors, delivered) :
          CallbackQuery(c, q.message, q.data)
    \/ \E c \in Callbacks : CallbackStep(c)

Spec == Init /\ [][Next]_vars

\* the statuses crates.io answers with
CrateStatuses == {200, 404, 500}

\* the longest owner list
MaxOwners == 2

\* the bot with its two commands: /docs and /crate commands of one chat in
\* the slots of lookup, and the follow-ups on the replies
NextCommands ==
    \/ \E t \in Lookups, args \in BotArgs : CommandDocs(t, 1, args)
    \/ \E t \in Lookups, args \in {<<>>, <<PathCrate>>} : CommandCrate(t, 1, args)
    \/ \E t \in Lookups : CommandHelp(t, 1)
    \/ \E t \in Lookups, ok \in BOOLEAN : HelpSent(t, ok)
    \/ \E t \in Lookups : LookupStep(t)
    \/ \E t \in Lookups, ok \in BOOLEAN : CrateSent(t, ok)
    \/ \E t \in Lookups, ok \in BOOLEAN, i \in 1..2, status \in CrateStatuses,
          owners \in 0..MaxOwners, newest \in BOOLEAN :
          GetInformation(t, ok, i, status, owners, newest)
    \/ \E c \in Callbacks, q \in Queries(BotSelectors, delivered)
                                     \cup BareQueries(BotSelectors, delivered) :
          CallbackQuery(c, q.message, q.data)
    \/ \E c \in Callbacks : CallbackStep(c)

\* the bot with its commands when what a handler waits for while a lock
\* is held or awaited comes:
\* the edit a follow-up sends under the read lock is answered, the write lock
\* is granted to a waiting writer (the RwLock queues its waiters first in,
\* first out, so readers that keep coming do not overtake it), and the lock
\* of CALLBACK_SESSIONS, held across no await, is granted
SpecLocks ==
    /\ Init
    /\ [][NextCommands]_vars
    /\ \A c \in Callbacks : WF_vars(\E ok \in BOOLEAN : EditSent(c, ok))
    /\ \A t \in Lookups : SF_vars(WriteDocument(t)) /\ WF_vars(WriteSession(t))

\* one conversation: one lookup over every path and one follow-up over every
\* selector
NextSolo ==
    \/ \E args \in SoloArgs : CommandDocs(1, 1, args)
    \/ LookupStep(1)
    \/ \E q \in Queries(SoloSelectors, delivered) : CallbackQuery(1, q.message, q.data)
    \/ CallbackStep(1)

SpecSolo == Init /\ [][NextSolo]_vars

\* one resolution of std::S::m in which five candidates are answered 404 and
\* the last to be answered gets a page, any of WidePages, and the follow-ups
\* on its reply
NextPages ==
    \/ CommandDocs(1, 1, <<PathStdMethod>>)
    \/ TypingSent(1, TRUE)
    \/ \E i \in 1..Len(Shapes) :
          /\ \E j \in 1..Len(lookup[1].got) : j # i /\ ~lookup[1].got[j].done
          /\ FetchAbsent(1, i, 404)
    \/ \E i \in 1..Len(Shapes) :
          /\ \A j \in 1..Len(lookup[1].got) : j # i => lookup[1].got[j].done
          /\ FetchHead(1, i, 200)
    \/ \E i \in 1..Len(Shapes), html \in WidePages :
          /\ \A j \in 1..Len(lookup[1].got) : j # i => lookup[1].got[j].done
          /\ FetchPage(1, i, 200, html)
    \/ \E ok \in BOOLEAN : NotFoundSent(1, ok)
    \/ ReplySent(1, 1)
    \/ WriteDocument(1)
    \/ WriteSession(1)
    \/ \E data \in PageSelectors :
          /\ lookup[1].pc = "done"
          /\ \E m \in delivered : CallbackQuery(1, Some(m), Some(data))
    \/ SearchCrateCallback(1)
    \/ EditSent(1, TRUE)
    \/ CallbackDropped(1)

SpecPages == Init /\ [][NextPages]_vars

\* a request of the resolution of lookup t completes, with a response or with
\* a transport error
RequestCompletes(t) ==
    \/ OriginFailed(t)
    \/ \E response \in OriginResponses : OriginAnswered(t, response)
    \/ \E i \in 1..Len(Shapes) : FetchFailed(t, i)
    \/ \E i \in 1..Len(Shapes), status \in PageStatuses : FetchAbsent(t, i, status)
    \/ \E i \in 1..Len(Shapes), status \in PageStatuses : FetchHead(t, i, status)
    \/ \E i \in 1..Len(Shapes), status \in PageStatuses, html \in Pages :
          FetchPage(t, i, status, html)

\* one lookup over every path, no follow-up, in which no request of the
\* resolution stays unanswered forever
NextLive ==
    \/ \E args \in SoloArgs : CommandDocs(1, 1, args)
    \/ LookupStep(1)

SpecLive == Init /\ [][NextLive]_vars /\ WF_vars(RequestCompletes(1))

\* the resolver alone: one call of get_document, up to its return
NextResolver ==
    \/ \E path \in ResolverPaths : GetDocument(1, path)
    \/ RequestCompletes(1)

SpecResolver == Init /\ [][NextResolver]_vars

\* one resolution of std::S in which three candidates are answered 404 and
\* the last to be answered gets a page whose description is a paragraph with
\* links
NextLinks ==
    \/ GetDocument(1, <<"std", ":", ":", "S">>)
    \/ \E i \in 1..Len(Shapes) :
          /\ \E j \in 1..Len(lookup[1].got) : j # i /\ ~lookup[1].got[j].done
          /\ FetchAbsent(1, i, 404)
    \/ \E i \in 1..Len(Shapes) :
          /\ \A j \in 1..Len(lookup[1].got) : j # i => lookup[1].got[j].done
          /\ FetchHead(1, i, 200)
    \/ \E i \in 1..Len(Shapes), html \in LinkPages :
          /\ \A j \in 1..Len(lookup[1].got) : j # i => lookup[1].got[j].done
          /\ FetchPage(1, i, 200, html)

SpecLinks == Init /\ [][NextLinks]_vars

\* one lookup of std::S::m in which five candidates are answered 404 and the
\* last to be answered gets a page with every listing, so that the document
\* is of any of the six shapes, and the follow-ups on its reply, with any
\* data, with the data of a button of the keyboard of a Module document or
\* with the data of a section button of a document of another shape
NextSlices ==
    \/ CommandDocs(1, 1, <<PathStdMethod>>)
    \/ TypingSent(1, TRUE)
    \/ \E i \in 1..Len(Shapes) :
          /\ \E j \in 1..Len(lookup[1].got) : j # i /\ ~lookup[1].got[j].done
          /\ FetchAbsent(1, i, 404)
    \/ \E i \in 1..Len(Shapes) :
          /\ \A j \in 1..Len(lookup[1].got) : j # i => lookup[1].got[j].done
          /\ FetchHead(1, i, 200)
    \/ \E i \in 1..Len(Shapes), html \in SlicePages :
          /\ \A j \in 1..Len(lookup[1].got) : j # i => lookup[1].got[j].done
          /\ FetchPage(1, i, 200, html)
    \/ ReplySent(1, 1)
    \/ WriteDocument(1)
    \/ WriteSession(1)
    \/ \E data \in SliceSelectors :
          /\ lookup[1].pc = "done"
          /\ \E m \in delivered : CallbackQuery(1, Some(m), Some(data))
    \/ \E m \in delivered, r \in 1..(4 + MaxChildren), i \in 1..2 :
          /\ lookup[1].pc = "done"
          /\ r <= Len(Unwrap(m.reply_markup))
          /\ i <= Len(Unwrap(m.reply_markup)[r])
          /\ CallbackQuery(1, Some(m), Some(Unwrap(m.reply_markup)[r][i].data))
    \/ SearchCrateCallback(1)
    \/ EditSent(1, TRUE)
    \/ CallbackDropped(1)

SpecSlices == Init /\ [][NextSlices]_vars

(***************************************************************************)
(* Properties of the resolver, checked under SpecSolo                      *)
(***************************************************************************)
ShapesOf(cands) == [i \in 1..Len(cands) |-> cands[i].shape]

Priority(shape) == CHOOSE i \in 1..Len(Shapes) : Shapes[i] = shape

Hits(got) == {i \in 1..Len(got) : IsSome(got[i].doc)}

Non2xx(status) == status < 200 \/ status > 299

StoreEmpty == \A k \in Keys : SEARCH_RESULT[k] = None /\ CALLBACK_SESSIONS[k] = None

\* C1: the shapes dispatched depend on the number L of segments only: Module
\* for L = 1; Module, Function, Struct, Trait for L = 2; these and Method,
\* TraitMethod for L >= 3; the owner of Method and TraitMethod is the
\* second-to-last segment and their name the last.
C1_CandidatesByLength ==
    \A t \in Lookups :
        lookup[t].pc = "fetch" =>
            LET tree == Split(lookup[t].args[1])
                L == Len(tree)
                cands == lookup[t].cands
            IN  /\ L = 1 => ShapesOf(cands) = <<"Module">>
                /\ L = 2 => ShapesOf(cands) = <<"Module", "Function", "Struct", "Trait">>
                /\ L >= 3 => ShapesOf(cands) = Shapes
                /\ \A i \in 1..Len(cands) :
                       cands[i].shape \in {"Method", "TraitMethod"} =>
                           /\ L >= 3
                           /\ cands[i].owner = tree[L - 1]
                           /\ cands[i].name = tree[L]

\* a four-segment path has its six candidates in flight
C1_Witness ==
    \E t \in Lookups :
        /\ lookup[t].pc = "fetch"
        /\ Len(Split(lookup[t].args[1])) = 4
        /\ Len(lookup[t].cands) = 6
        /\ lookup[t].cands[5].owner = <<"S">>

\* C2 as claimed: the document returned is that of the candidate that was the
\* first to complete with a document.
C2_FirstCompletedWins ==
    \A t \in Lookups :
        lookup[t].pc = "reply" /\ lookup[t].first # 0 =>
            lookup[t].document = lookup[t].got[lookup[t].first].doc

\* C2 as amended: a document is returned only once every candidate has
\* completed, and it is that of the first candidate in dispatch order that
\* completed with a document, whichever completed first; the other results
\* are dropped.
C2_DispatchOrderWins ==
    \A t \in Lookups :
        lookup[t].pc = "reply" =>
            /\ AllDone(lookup[t].got)
            /\ \E i \in 1..Len(lookup[t].got) :
                   /\ IsSome(lookup[t].got[i].doc)
                   /\ lookup[t].document = lookup[t].got[i].doc
                   /\ \A j \in 1..(i - 1) : lookup[t].got[j].doc = None

\* a document is returned that is not the one of the first completer
C2_Witness ==
    \E t \in Lookups :
        /\ lookup[t].pc = "reply"
        /\ lookup[t].first # 0
        /\ lookup[t].document # lookup[t].got[lookup[t].first].doc

\* C3: when several candidates yield a document, the one returned is that of
\* the shape highest in the order Module, Function, Struct, Trait, Method,
\* TraitMethod.
C3_PriorityOrder ==
    \A t \in Lookups :
        lookup[t].pc = "reply" =>
            /\ \E i \in Hits(lookup[t].got) :
                   lookup[t].cands[i].shape = Unwrap(lookup[t].document).kind
            /\ \A i \in Hits(lookup[t].got) :
                   Priority(Unwrap(lookup[t].document).kind) <= Priority(lookup[t].cands[i].shape)

\* Struct, Trait and Method all yield a document and the Struct one is returned
C3_Witness ==
    \E t \in Lookups :
        /\ lookup[t].pc = "reply"
        /\ Cardinality(Hits(lookup[t].got)) >= 3
        /\ Unwrap(lookup[t].document).kind = "Struct"

\* C4: a transport failure of any candidate ends the resolution in failure:
\* not in not found, and with no document, whatever the other candidates
\* have returned; nothing is sent or stored for it.
C4_FailureFailsResolution ==
    \A t \in Lookups :
        lookup[t].failed # 0 =>
            /\ lookup[t].pc = "done"
            /\ lookup[t].result = "err"
            /\ lookup[t].document = None
            /\ lookup[t].message = None
            /\ lookup[t].reply = ""
            /\ StoreEmpty

\* a candidate fails after another one has completed with a document
C4_Witness ==
    \E t \in Lookups :
        /\ lookup[t].failed # 0
        /\ lookup[t].first # 0
        /\ lookup[t].failed # lookup[t].first
        /\ lookup[t].result = "err"

\* C5: when the origin is found and every candidate is answered with a status
\* outside 2xx, get_document returns Ok(None); search_crate then sends the
\* not-found text and writes neither map.
C5_AllAbsentIsNotFound ==
    \A t \in Lookups :
        /\ ( /\ lookup[t].got # <<>>
             /\ \A i \in 1..Len(lookup[t].got) :
                    lookup[t].got[i].done /\ Non2xx(lookup[t].got[i].status) )
           => lookup[t].pc = "not_found" /\ lookup[t].result = "none"
        /\ lookup[t].result = "none" =>
              /\ lookup[t].pc \in {"not_found", "done"}
              /\ lookup[t].document = None /\ lookup[t].message = None
              /\ lookup[t].pc = "done" =>
                     lookup[t].reply = "not_found" \/ lookup[t].returned = "Err"
              /\ lookup[t].logged \in {"", "Error"}
              /\ StoreEmpty

\* the six candidates of a docs.rs crate were all answered 302 or 404
C5_Witness ==
    \E t \in Lookups :
        /\ lookup[t].pc = "not_found"
        /\ Len(lookup[t].got) = 6
        /\ IsSome(lookup[t].crate) /\ Unwrap(lookup[t].crate).url[1] = "https://docs.rs/k/1.0.0/k"
        /\ \A i \in 1..6 : Non2xx(lookup[t].got[i].status)

(***************************************************************************)
(* Properties of the Session Store, checked under Spec                     *)
(***************************************************************************)
\* the lookups whose document reply was sent as the message with key k
SentAs(k) ==
    {t \in Lookups : /\ lookup[t].result = "doc"
                     /\ lookup[t].reply = "doc"
                     /\ lookup[t].message = Some([chat_id |-> k[1], id |-> k[2]])
                     /\ lookup[t].chat = k[1]}

\* the lookups that have ended without a document reply sent
EndedWithout(l) ==
    \/ l.result \in {"err", "none"}
    \/ l.returned \in {"Err", "panic"}

\* C6: an entry of either map changes only in a step of a lookup whose
\* resolution returned a document and whose document reply was sent, and
\* under the key of that reply; no step of a lookup that ends in a failed
\* resolution, in not found or in a failed send changes either map.
C6_WriteOnlyAfterReply ==
    [][ /\ \A k \in Keys :
               (SEARCH_RESULT'[k] # SEARCH_RESULT[k] \/ CALLBACK_SESSIONS'[k] # CALLBACK_SESSIONS[k])
                   => \E t \in SentAs(k) : /\ lookup[t].pc \in {"write_doc", "write_tag"}
                                           /\ lookup'[t].pc # lookup[t].pc
                                           /\ k \in DeliveredKeys
        /\ \A t \in Lookups :
               (lookup'[t] # lookup[t] /\ EndedWithout(lookup'[t]))
                   => UNCHANGED <<SEARCH_RESULT, CALLBACK_SESSIONS>>
      ]_vars

\* the send of a document reply has failed while the maps hold the entry of
\* another lookup, and nothing else
C6_Witness ==
    \E t, u \in Lookups :
        /\ lookup[t].pc = "done" /\ lookup[t].result = "doc" /\ lookup[t].returned = "Err"
        /\ lookup[u].pc = "done" /\ lookup[u].returned = "Ok" /\ IsSome(lookup[u].message)
        /\ \A k \in Keys :
               /\ IsSome(SEARCH_RESULT[k]) <=> k = SessionKey(Unwrap(lookup[u].message))
               /\ IsSome(CALLBACK_SESSIONS[k]) <=> k = SessionKey(Unwrap(lookup[u].message))

\* C7 as claimed: every follow-up that arrives for a delivered lookup reply
\* finds the Docs tag of that message, and then its document.
C7_SessionExistsFromRender ==
    \A c \in Callbacks :
        (callback[c].pc # "idle" /\ callback[c].visible /\ IsSome(callback[c].data)) =>
            /\ callback[c].session = Some("Docs")
            /\ callback[c].pc \in {"edit", "done"} => IsSome(callback[c].found)

\* C8: get(c, m) returns the document of the last put(c, m, d), and nothing
\* for a key never put, whatever was put and got under the other keys.
C8_RoundTrip ==
    /\ \A k \in Keys : MapGet(SEARCH_RESULT, k) = last_put[k]
    /\ \A c \in Callbacks :
           callback[c].pc = "edit" =>
               LET message == Unwrap(callback[c].message)
               IN  callback[c].found = last_put[<<message.chat_id, message.id>>]

\* a follow-up got the document put under its key while another key holds
\* another document and a third none
C8_Witness ==
    \E c \in Callbacks, k1, k2, k3 \in Keys :
        /\ callback[c].pc = "edit"
        /\ k1 = <<Unwrap(callback[c].message).chat_id, Unwrap(callback[c].message).id>>
        /\ IsSome(last_put[k1]) /\ callback[c].found = last_put[k1]
        /\ IsSome(last_put[k2]) /\ last_put[k2] # last_put[k1]
        /\ last_put[k3] = None /\ MapGet(SEARCH_RESULT, k3) = None

\* C9: no step removes an entry of either map, and the insert made under a
\* key already present replaces the document, the lookup going on to its
\* next insert with nothing logged.
C9_NoRemovalOverwrite ==
    [][ /\ \A k \in Keys :
               /\ IsSome(SEARCH_RESULT[k]) => IsSome(SEARCH_RESULT'[k])
               /\ IsSome(CALLBACK_SESSIONS[k]) => IsSome(CALLBACK_SESSIONS'[k])
        /\ \A t \in Lookups :
               (lookup[t].pc = "write_doc" /\ lookup'[t].pc # "write_doc") =>
                   /\ SEARCH_RESULT'[<<lookup[t].chat, Unwrap(lookup[t].message).id>>]
                          = lookup[t].document
                   /\ lookup'[t].pc = "write_tag"
                   /\ lookup'[t].logged = ""
      ]_vars

\* two lookups have inserted different documents under one key
C9_Witness ==
    \E t, u \in Lookups :
        /\ t # u
        /\ lookup[t].pc \in {"write_tag", "done"} /\ lookup[u].pc \in {"write_tag", "done"}
        /\ IsSome(lookup[t].message) /\ lookup[t].message = lookup[u].message
        /\ lookup[t].document # lookup[u].document
        /\ SEARCH_RESULT[SessionKey(Unwrap(lookup[t].message))] = lookup[t].document

\* the lookups other than t that have inserted under the key of t's reply
Overwriters(t) ==
    {u \in Lookups \ {t} : /\ lookup[u].pc \in {"write_tag", "done"}
                           /\ lookup[u].message = lookup[t].message}

\* C24: whatever the interleaving of the lookups, a lookup that has made its
\* insert has its own document under the key of its own reply, and once it
\* has returned its Docs tag too, unless another lookup was given the same
\* reply key: no insert of a lookup loses or replaces an entry under another
\* key.
C24_LookupsIndependent ==
    \A t \in Lookups :
        (/\ lookup[t].pc \in {"write_tag", "done"}
         /\ IsSome(lookup[t].message)
         /\ Overwriters(t) = {}) =>
            LET k == SessionKey(Unwrap(lookup[t].message))
            IN  /\ k[1] = lookup[t].chat
                /\ SEARCH_RESULT[k] = lookup[t].document
                /\ lookup[t].pc = "done" => CALLBACK_SESSIONS[k] = Some("Docs")

\* two lookups of the same path have both returned, their replies are
\* different messages of one chat, and the store holds the entry of each
C24_Witness ==
    \E t, u \in Lookups :
        /\ t # u
        /\ lookup[t].pc = "done" /\ lookup[u].pc = "done"
        /\ lookup[t].returned = "Ok" /\ lookup[u].returned = "Ok"
        /\ lookup[t].args = lookup[u].args
        /\ lookup[t].chat = lookup[u].chat
        /\ IsSome(lookup[t].message) /\ IsSome(lookup[u].message)
        /\ lookup[t].message # lookup[u].message
        /\ SEARCH_RESULT[SessionKey(Unwrap(lookup[t].message))] = lookup[t].document
        /\ SEARCH_RESULT[SessionKey(Unwrap(lookup[u].message))] = lookup[u].document

(***************************************************************************)
(* Properties of the follow-up, checked under SpecSolo                     *)
(***************************************************************************)
\* the selectors that name no section of any document: neither a section
\* name nor a number
NoSectionSelectors == {<<"nope">>, <<>>}

\* C10: a follow-up whose selector has no section in the stored document
\* ends without an edit sent, returns Ok with nothing logged, and leaves
\* both maps as they were.
C10_UnresolvableIsNoOp ==
    [][ \A c \in Callbacks :
            LET q == callback[c]
                stored == MapGet(SEARCH_RESULT, SessionKey(Unwrap(q.message)))
            IN  ( /\ q.pc = "read_doc" /\ callback'[c].pc # "read_doc"
                  /\ IsSome(stored)
                  /\ \/ Unwrap(q.data) \in NoSectionSelectors
                     \/ SliceSection(Unwrap(stored), Unwrap(q.data)) = None )
                => /\ callback'[c].pc = "done"
                   /\ callback'[c].edit = None
                   /\ callback'[c].returned = "Ok"
                   /\ callback'[c].logged = ""
                   /\ readers' = readers
                   /\ UNCHANGED <<SEARCH_RESULT, CALLBACK_SESSIONS>>
      ]_vars

\* a follow-up with a selector that is no section name has found the
\* document and ended without an edit
C10_Witness ==
    \E c \in Callbacks :
        /\ callback[c].pc = "done"
        /\ callback[c].session = Some("Docs")
        /\ IsSome(callback[c].found)
        /\ callback[c].data = Some(<<"nope">>)
        /\ callback[c].edit = None
        /\ callback[c].returned = "Ok"

(***************************************************************************)
(* Properties of the extractors and of the follow-up text, checked under   *)
(* SpecPages                                                               *)
(***************************************************************************)
\* the text of the edit that shows the Methods listing of a Struct document
MethodsListingText(doc) ==
    <<"Struct <code>">> \o doc.path \o <<"</code> ">>
    \o (IF IsSome(doc.portability) THEN <<"<u>(">> \o Unwrap(doc.portability) \o <<")</u>">>
        ELSE <<>>)
    \o <<"\n", "\n", "<b>", "Methods", "</b>", "\n">> \o Join(doc.methods, <<"\n", "\n">>)

\* C11: a follow-up with the selector "methods" on a stored Struct document
\* sends the edit that shows the Methods listing of the document, whatever
\* the headings of its sections.
C11_MethodsSelectsListing ==
    \A c \in Callbacks :
        ( /\ callback[c].pc \in {"edit", "done"}
          /\ callback[c].data = Some(<<"methods">>)
          /\ IsSome(callback[c].found)
          /\ Unwrap(callback[c].found).kind = "Struct" )
        => /\ IsSome(callback[c].edit)
           /\ Unwrap(callback[c].edit).text = MethodsListingText(Unwrap(callback[c].found))

\* the Struct document has a section headed Methods whose body is not the
\* listing, and the edit of "methods" is being sent
C11_Witness ==
    \E c \in Callbacks :
        /\ callback[c].pc = "edit"
        /\ callback[c].data = Some(<<"methods">>)
        /\ IsSome(callback[c].found)
        /\ LET doc == Unwrap(callback[c].found)
           IN  /\ doc.kind = "Struct"
               /\ \E i \in 1..Len(doc.sections) :
                      /\ doc.sections[i][1] = <<"Methods">>
                      /\ doc.sections[i][2] # Join(doc.methods, <<"\n", "\n">>)
                      /\ doc.sections[i][2] # <<>>

\* a page of BlockPage: its description block is also the block after its
\* anchor of m
IsBlockPage(page) ==
    /\ IsSome(page.docblock)
    /\ page = BlockPage(Unwrap(page.docblock).children)

\* the children of a description block read forward: whether a child is a
\* heading, the headings' texts in document order, and the text of the
\* paragraphs among the children a..b
IsHeading(node) == node.kind = "element" /\ node.name = "h1"

IsParagraph(node) == node.kind = "element" /\ node.name \in {"p", "div"}

HeadingsOf(children) ==
    LET heads == SelectSeq(children, IsHeading)
    IN  [k \in 1..Len(heads) |-> heads[k].texts[1]]

ParagraphsBetween(children, a, b) ==
    LET paragraphs == SelectSeq(SubSeq(children, a, b), IsParagraph)
    IN  Join([k \in 1..Len(paragraphs) |->
                IF paragraphs[k].name = "p" THEN paragraphs[k].html
                ELSE <<"<pre><code class=\"language-rust\">">> \o paragraphs[k].texts[1]
                     \o <<"</code></pre>">>],
             <<"\n">>)

\* the position of the heading that follows position i, or one past the end
NextHeading(children, i) ==
    LET later == {j \in (i + 1)..Len(children) : IsHeading(children[j])}
    IN  IF later = {} THEN Len(children) + 1
        ELSE CHOOSE j \in later : \A k \in later : j <= k

\* the documents with sections that were read from a page of BlockPage:
\* [doc, children] for every candidate of a lookup that has parsed one
BlockReads ==
    {[doc |-> Unwrap(lookup[t].got[i].doc),
      children |-> Unwrap(Unwrap(lookup[t].html[i]).docblock).children] :
        <<t, i>> \in {x \in Lookups \X (1..Len(Shapes)) :
                        /\ x[2] <= Len(lookup[x[1]].html)
                        /\ IsSome(lookup[x[1]].html[x[2]])
                        /\ IsBlockPage(Unwrap(lookup[x[1]].html[x[2]]))
                        /\ IsSome(lookup[x[1]].got[x[2]].doc)
                        /\ lookup[x[1]].cands[x[2]].shape # "Module"}}

\* C12 as claimed: the headings of the sections extracted are the headings
\* of the description block in document order.
C12_SectionsInDocumentOrder ==
    \A r \in BlockReads :
        [k \in 1..Len(r.doc.sections) |-> r.doc.sections[k][1]] = HeadingsOf(r.children)

\* C13: the description is the paragraphs before the first heading, in
\* document order, and the sections are, one for one, the headings each with
\* the paragraphs between it and the next heading, in document order.
C13_ParagraphsUnderTheirHeading ==
    \A r \in BlockReads :
        LET heads == {i \in 1..Len(r.children) : IsHeading(r.children[i])}
            Section(i) == <<r.children[i].texts[1],
                            ParagraphsBetween(r.children, i + 1,
                                              NextHeading(r.children, i) - 1)>>
        IN  /\ r.doc.description
                   = ParagraphsBetween(r.children, 1, NextHeading(r.children, 0) - 1)
            /\ Len(r.doc.sections) = Cardinality(heads)
            /\ \A i \in heads :
                   Cardinality({k \in 1..Len(r.doc.sections) : r.doc.sections[k] = Section(i)})
                       = Cardinality({j \in heads : Section(j) = Section(i)})

\* a Method document was read from the block paragraph, heading, paragraph,
\* heading
C13_Witness ==
    \E r \in BlockReads :
        /\ r.doc.kind = "Method"
        /\ Len(r.children) = 4
        /\ IsParagraph(r.children[1]) /\ IsHeading(r.children[2])
        /\ IsParagraph(r.children[3]) /\ IsHeading(r.children[4])
        /\ r.children[2] # r.children[4]
        /\ r.doc.description # <<>>
        /\ Len(r.doc.sections) = 2

\* the anchor a Method or TraitMethod candidate looks for in a page: the
\* positions of the anchors of its name, by the form of their id
AnchorsOf(cand, page, form) ==
    {k \in 1..Len(page.anchors) : page.anchors[k].id = <<form>> \o cand.name}

NamedAnchors(cand, page) ==
    AnchorsOf(cand, page, "method.")
    \cup (IF cand.shape = "TraitMethod" THEN AnchorsOf(cand, page, "tymethod.") ELSE {})

\* the page lacks an element the extraction of the candidate depends on
LacksMarkup(cand, page) ==
    CASE cand.shape = "Module" ->
           \E b \in DOMAIN page.rows : \E k \in 1..Len(page.rows[b]) :
               page.rows[b][k].td = None \/ page.rows[b][k].short = None
      [] cand.shape \in {"Function", "Struct", "Trait"} ->
           page.pre = None \/ page.docblock = None
      [] OTHER ->
           \E k \in NamedAnchors(cand, page) : page.anchors[k].code = None

\* C14 as claimed: a candidate that parses a page lacking an element it
\* depends on completes Absent; no extraction panics, and the task of the
\* command handlers stays alive.
C14_MissingMarkupIsAbsent ==
    /\ commands_alive
    /\ \A t \in Lookups :
           /\ lookup[t].crashed = None
           /\ lookup[t].pc # "dead"
           /\ \A i \in 1..Len(lookup[t].html) :
                  (IsSome(lookup[t].html[i])
                   /\ LacksMarkup(lookup[t].cands[i], Unwrap(lookup[t].html[i])))
                      => lookup[t].got[i].done /\ lookup[t].got[i].doc = None

\* the anchor the candidate selects: the first of its name in the page
FirstAnchor(cand, page) ==
    page.anchors[CHOOSE k \in NamedAnchors(cand, page) :
                     \A j \in NamedAnchors(cand, page) : k <= j]

\* a description block is adjacent to the anchor: it is the node that follows
\* the anchor, or that follows the stability block that follows the anchor
HasAdjacentBlock(anchor) ==
    LET sibs == anchor.sibs
        stab == /\ Len(sibs) >= 1
                /\ sibs[1].kind = "element"
                /\ "stability" \in sibs[1].classes
        at == IF stab THEN 2 ELSE 1
    IN  /\ Len(sibs) >= at
        /\ sibs[at].kind = "element"
        /\ "docblock" \in sibs[at].classes

\* C15 as claimed: a Method or TraitMethod candidate whose page has no anchor
\* of its name completes Absent, and one whose page has the anchor without an
\* adjacent description block completes with a document whose description is
\* empty and which has no sections; neither case panics.
C15_AnchorDecides ==
    \A t \in Lookups :
        /\ \A i \in 1..Len(lookup[t].html) :
               (IsSome(lookup[t].html[i])
                /\ lookup[t].cands[i].shape \in {"Method", "TraitMethod"}) =>
                   LET cand == lookup[t].cands[i]
                       page == Unwrap(lookup[t].html[i])
                       doc == lookup[t].got[i].doc
                   IN  /\ NamedAnchors(cand, page) = {} => doc = None
                       /\ ( /\ NamedAnchors(cand, page) # {}
                            /\ ~HasAdjacentBlock(FirstAnchor(cand, page)) )
                          => /\ IsSome(doc)
                             /\ Unwrap(doc).description = <<>>
                             /\ Unwrap(doc).sections = <<>>
        /\ (IsSome(lookup[t].crashed)
            /\ Unwrap(lookup[t].crashed).cand.shape \in {"Method", "TraitMethod"}) =>
               LET cand == Unwrap(lookup[t].crashed).cand
                   page == Unwrap(lookup[t].crashed).html
               IN  /\ NamedAnchors(cand, page) # {}
                   /\ HasAdjacentBlock(FirstAnchor(cand, page))

\* C16 as claimed: when the page of a TraitMethod candidate has both an
\* anchor tymethod.<name> and an anchor method.<name>, the document is read
\* from the tymethod one, whichever comes first in the page.
C16_RequiredAnchorPreferred ==
    \A t \in Lookups : \A i \in 1..Len(lookup[t].html) :
        LET cand == lookup[t].cands[i]
        IN  ( /\ IsSome(lookup[t].html[i])
              /\ cand.shape = "TraitMethod"
              /\ AnchorsOf(cand, Unwrap(lookup[t].html[i]), "tymethod.") # {}
              /\ AnchorsOf(cand, Unwrap(lookup[t].html[i]), "method.") # {} )
            => LET page == Unwrap(lookup[t].html[i])
                   required == page.anchors[CHOOSE k \in AnchorsOf(cand, page, "tymethod.") :
                                   \A j \in AnchorsOf(cand, page, "tymethod.") : k <= j]
               IN  /\ IsSome(lookup[t].got[i].doc)
                   /\ Unwrap(lookup[t].got[i].doc).definition
                          = code_node_text(Unwrap(required.code))

(***************************************************************************)
(* Properties of the origin lookup and of the failure path                 *)
(***************************************************************************)
\* C17 as claimed: a lookup whose resolution failed has logged the failure
\* and has sent a reply that reports it.
C17_FailureReported ==
    \A t \in Lookups :
        lookup[t].result = "err" =>
            /\ lookup[t].logged = "Failed to get information"
            /\ lookup[t].reply # ""

\* the package name of a lookup: the first segment of its path
PackageOf(l) == Split(l.args[1])[1]

\* C18: a lookup of a built-in package never has a request to the redirector
\* in flight and gets its origin in the step that enters get_document; a
\* lookup of any other package issues the request in that step, once, and
\* never again.
C18_OriginRequests ==
    [][ \A t \in Lookups :
            LET l == lookup[t]
                m == lookup'[t]
            IN  /\ (m.pc = "origin" /\ l.pc # "origin")
                       => l.pc = "typing" /\ PackageOf(m) \notin StdCrates
                /\ (m.pc = "typing" /\ l.pc # "typing") => l.pc = "idle"
                /\ (l.pc = "typing" /\ m.pc \notin {"typing", "done"}) =>
                       IF PackageOf(l) \in StdCrates
                       THEN /\ m.pc = "fetch"
                            /\ m.response = None
                            /\ m.crate = Some([url |-> <<"https://doc.rust-lang.org/stable/">>
                                                       \o PackageOf(l) \o <<"/">>])
                       ELSE m.pc = "origin" /\ m.crate = None
                /\ (l.pc = "origin" /\ m # l) => m.pc # "origin"
      ]_vars

\* one lookup has the origin of std without an answer of the redirector,
\* another the origin of k with one
C18_Witness ==
    \E t, u \in Lookups :
        /\ lookup[t].pc = "fetch" /\ PackageOf(lookup[t]) = <<"std">>
        /\ lookup[t].response = None /\ IsSome(lookup[t].crate)
        /\ lookup[u].pc = "fetch" /\ PackageOf(lookup[u]) = <<"k">>
        /\ IsSome(lookup[u].response) /\ IsSome(lookup[u].crate)

\* C19 as claimed: the redirector's answer gives an origin exactly when its
\* status is 302, the origin being the Location value with a '/' appended
\* unless it ends with one; any other status gives not found.
C19_OriginIffFound ==
    \A t \in Lookups :
        IsSome(lookup[t].response) =>
            LET r == Unwrap(lookup[t].response)
            IN  IF r.status = 302
                THEN /\ lookup[t].pc \in {"fetch", "not_found", "reply"}
                     /\ lookup[t].cands # <<>>
                     /\ IsSome(lookup[t].crate)
                     /\ IsSome(r.location) =>
                            LET location == Unwrap(r.location)
                            IN  Unwrap(lookup[t].crate).url
                                    = IF location[Len(location)] = "/" THEN location
                                      ELSE location \o <<"/">>
                ELSE /\ lookup[t].pc = "not_found"
                     /\ lookup[t].result = "none"
                     /\ lookup[t].crate = None

\* C20: candidates are dispatched only in the step in which the origin is
\* obtained, none is in flight before, and when the redirector does not
\* redirect or its request fails the resolution ends there, in not found or
\* in failure, with no candidate dispatched.
C20_OriginBeforeCandidates ==
    [][ \A t \in Lookups :
            LET l == lookup[t]
                m == lookup'[t]
            IN  /\ m.pc \in {"typing", "origin"}
                       => m.cands = <<>> /\ m.got = <<>> /\ m.html = <<>>
                /\ (m.cands # <<>> /\ l.cands = <<>>) =>
                       /\ IsSome(m.crate)
                       /\ \/ l.pc = "typing" /\ PackageOf(l) \in StdCrates
                          \/ /\ l.pc = "origin"
                             /\ IsSome(m.response)
                             /\ Unwrap(m.response).status = 302
                /\ (l.pc = "origin" /\ m.pc # "origin") =>
                       IF m.pc = "dead"
                       THEN m.cands = <<>> /\ m.got = <<>>
                       ELSE IF m.response = None
                       THEN m.pc = "done" /\ m.result = "err" /\ m.cands = <<>> /\ m.got = <<>>
                       ELSE Unwrap(m.response).status # 302 =>
                                /\ m.pc = "not_found" /\ m.result = "none"
                                /\ m.cands = <<>> /\ m.got = <<>>
      ]_vars

\* the redirector has answered 404 and the lookup is at its not-found reply
\* with no candidate dispatched
C20_Witness ==
    \E t \in Lookups :
        /\ lookup[t].pc = "not_found"
        /\ IsSome(lookup[t].response)
        /\ Unwrap(lookup[t].response).status = 404
        /\ lookup[t].cands = <<>> /\ lookup[t].got = <<>>

(***************************************************************************)
(* Properties of the course of a resolution, checked under SpecLive        *)
(***************************************************************************)
\* C21 as claimed: when every request completes, a resolution that has
\* started (get_document awaits the redirector or the pages) eventually ends
\* with one of the outcomes document, not found, failure.
C21_ResolutionEnds ==
    \A t \in Lookups :
        (lookup[t].pc \in {"origin", "fetch"}) ~> (lookup[t].result \in {"doc", "none", "err"})

\* C22: a lookup sends its request to the redirector at most once, its
\* candidates are dispatched once and a candidate that has completed is not
\* requested again, and a lookup whose resolution ended in not found or in
\* failure has no request in flight ever after.
C22_NoRetry ==
    [][ \A t \in Lookups :
            LET l == lookup[t]
                m == lookup'[t]
            IN  /\ (m.pc = "origin" /\ l.pc # "origin")
                       => l.pc = "typing" /\ l.response = None /\ l.result = ""
                /\ (m.pc = "fetch" /\ l.pc # "fetch")
                       => l.pc \in {"typing", "origin"} /\ l.cands = <<>> /\ l.result = ""
                /\ l.pc = "fetch" =>
                       \A i \in 1..Len(l.got) :
                           l.got[i].done /\ m.got # <<>> =>
                               /\ Len(m.got) = Len(l.got)
                               /\ m.got[i] = l.got[i]
                               /\ m.cands = l.cands
                /\ l.result \in {"none", "err"} =>
                       /\ m.pc \in {"not_found", "done"}
                       /\ m.result = l.result
                       /\ \A i \in 1..Len(m.got) : m.got[i].done
      ]_vars

\* the request of the third of four candidates has failed after another was
\* answered, and the lookup is over
C22_Witness ==
    \E t \in Lookups :
        /\ lookup[t].pc = "done"
        /\ lookup[t].result = "err"
        /\ lookup[t].failed = 3
        /\ lookup[t].first # 0

(***************************************************************************)
(* Properties of the resolver called directly, checked under SpecResolver  *)
(***************************************************************************)
\* C23 as claimed: a call of the resolver with the empty path has returned
\* not found, with no request to the redirector and no page request issued.
C23_EmptyPathIsNotFound ==
    \A t \in Lookups :
        (lookup[t].args = <<PathEmpty>>) =>
            /\ lookup[t].pc = "not_found"
            /\ lookup[t].result = "none"
            /\ lookup[t].response = None
            /\ lookup[t].cands = <<>>

\* C25: when the four candidates of a two-segment path have completed, the
\* Trait candidate with a document and the Module, Function and Struct
\* candidates Absent, the resolver has returned the Trait candidate's
\* document; the candidates complete in every order.
C25_TraitAloneWins ==
    \A t \in Lookups :
        LET l == lookup[t]
        IN  (/\ Len(l.cands) = 4
             /\ AllDone(l.got)
             /\ IsSome(l.got[4].doc)
             /\ \A i \in 1..3 : l.got[i].doc = None) =>
                /\ l.pc = "reply"
                /\ l.result = "doc"
                /\ l.document = l.got[4].doc
                /\ l.document = Extract(l.cands[4], Unwrap(l.html[4])).doc
                /\ Unwrap(l.document).kind = "Trait"

\* the resolver has returned the Trait document of k::S after three
\* candidates were answered 404
C25_Witness ==
    \E t \in Lookups :
        /\ lookup[t].args = <<PathCrateItem>>
        /\ lookup[t].pc = "reply"
        /\ IsSome(lookup[t].document)
        /\ Unwrap(lookup[t].document).kind = "Trait"
        /\ Unwrap(lookup[t].document).path = PathCrateItem
        /\ \A i \in 1..3 : lookup[t].got[i].done /\ lookup[t].got[i].status = 404

\* the segments a..b of tree, each followed by '/'
Directories(tree, a, b) == Concat([i \in 1..(b - a + 1) |-> tree[a + i - 1] \o <<"/">>])

\* the URL of the page of the item called name, of the kind with file prefix
\* kind, in the module whose last segment is tree[last]
ItemUrl(origin, tree, last, kind, name) ==
    origin \o Directories(tree, 2, last) \o <<kind>> \o name \o <<".html">>

\* C26: the URL requested for each candidate is the origin, the module
\* segments after the package name each followed by '/', and the file of the
\* shape: index.html under all segments for Module, fn./struct./trait. with
\* the last segment for Function, Struct and Trait; for Method and
\* TraitMethod the URL of the Struct or Trait page of the owner, the segment
\* before the last, in which the method name does not occur.
C26_CandidateUrls ==
    \A t \in Lookups :
        LET l == lookup[t]
            tree == Split(l.args[1])
            n == Len(tree)
            origin == Unwrap(l.crate).url
        IN  l.pc = "fetch" =>
                /\ Len(l.urls) = Len(l.cands)
                /\ \A i \in 1..Len(l.cands) :
                       l.urls[i] =
                           CASE l.cands[i].shape = "Module" ->
                                    origin \o Directories(tree, 2, n) \o <<"index.html">>
                             [] l.cands[i].shape = "Function" ->
                                    ItemUrl(origin, tree, n - 1, "fn.", tree[n])
                             [] l.cands[i].shape = "Struct" ->
                                    ItemUrl(origin, tree, n - 1, "struct.", tree[n])
                             [] l.cands[i].shape = "Trait" ->
                                    ItemUrl(origin, tree, n - 1, "trait.", tree[n])
                             [] l.cands[i].shape = "Method" ->
                                    ItemUrl(origin, tree, n - 2, "struct.", tree[n - 1])
                             [] l.cands[i].shape = "TraitMethod" ->
                                    ItemUrl(origin, tree, n - 2, "trait.", tree[n - 1])
                /\ \A i \in 1..Len(l.cands) :
                       l.cands[i].shape \in {"Method", "TraitMethod"} =>
                           \A j \in 1..Len(l.urls[i]) : <<l.urls[i][j]>> # tree[n]

\* the six candidates of k::a::S::m are requested, the Method candidate with
\* the URL of the page of struct S in module a
C26_Witness ==
    \E t \in Lookups :
        /\ lookup[t].pc = "fetch"
        /\ lookup[t].args[1] = PathCrateDeep
        /\ Len(lookup[t].urls) = 6
        /\ lookup[t].urls[1] = <<"https://docs.rs/k/1.0.0/k", "/", "a", "/", "S", "/", "m", "/",
                                 "index.html">>
        /\ lookup[t].urls[5] = <<"https://docs.rs/k/1.0.0/k", "/", "a", "/", "struct.", "S",
                                 ".html">>
        /\ lookup[t].urls[6] = <<"https://docs.rs/k/1.0.0/k", "/", "a", "/", "trait.", "S",
                                 ".html">>

\* C28 as claimed: the Struct document a resolution returns lists under
\* methods the page's method entries (METHODS_SELECTOR) and under
\* implementations its implementation-list entries (IMPLS_SELECTOR), each in
\* page order.
C28_StructListings ==
    \A t \in Lookups :
        LET l == lookup[t]
        IN  (l.pc = "reply" /\ Unwrap(l.document).kind = "Struct") =>
                \A i \in 1..Len(l.cands) :
                    (l.cands[i].shape = "Struct" /\ IsSome(l.html[i])) =>
                        LET page == Unwrap(l.html[i])
                            doc == Unwrap(l.document)
                        IN  /\ doc.methods = [j \in 1..Len(page.impl_methods) |->
                                                 code_node_text(page.impl_methods[j])]
                            /\ doc.implementations = [j \in 1..Len(page.in_band) |->
                                                         code_node_text(page.in_band[j])]

(***************************************************************************)
(* Properties of the paragraph transform, checked under SpecLinks          *)
(***************************************************************************)
\* the targets that are absolute URLs
IsAbsolute(target) ==
    \/ Len(target) >= 7 /\ SubSeq(target, 1, 7) = "http://"
    \/ Len(target) >= 8 /\ SubSeq(target, 1, 8) = "https://"

\* what the claim keeps of a piece: a link to an absolute URL whole, of any
\* other link the inner text
KeptOf(piece) ==
    IF piece.target = None \/ IsAbsolute(Unwrap(piece.target)) THEN PieceHtml(piece)
    ELSE piece.text

\* C27 as claimed: the description read from a paragraph is the paragraph
\* with every link to a target that is not an absolute URL replaced by its
\* inner text and every other piece as it was, however many links it has.
C27_RelativeLinksStripped ==
    \A t \in Lookups :
        LET l == lookup[t]
        IN  (l.pc = "reply" /\ Unwrap(l.document).kind # "Module") =>
                \A i \in 1..Len(l.html), pieces \in PieceLists :
                    l.html[i] = Some(LinkPage(pieces)) =>
                        Unwrap(l.document).description
                            = Concat([p \in 1..Len(pieces) |-> KeptOf(pieces[p])])

(***************************************************************************)
(* Properties of the slicing of a stored document, checked under           *)
(* SpecSlices                                                              *)
(***************************************************************************)
\* the index a selector spells, as a set: the decimal digit d, also written
\* +d and 0d
IndexOf(data) ==
    {i \in 0..9 : data \in {<<Digits[i + 1]>>, <<"+", Digits[i + 1]>>, <<"0", Digits[i + 1]>>}}

\* sections[i] for the in-range index a selector spells
IndexedSection(doc, data) ==
    {doc.sections[i + 1] : i \in {j \in IndexOf(data) : j < Len(doc.sections)}}

\* the promoted listing a key names, under its title
Listing(title, codes) == <<<<title>>, Join(codes, <<"\n", "\n">>)>>

\* the section the claim gives a selector in a document, as a set
ClaimedSection(doc, data) ==
    CASE doc.kind = "Module" ->
             {doc[b] : b \in {c \in {Buckets[i] : i \in 1..Len(Buckets)} : data = <<c>>}}
      [] doc.kind = "Struct" ->
             IF IndexedSection(doc, data) # {} THEN IndexedSection(doc, data)
             ELSE IF data = <<"methods">> THEN {Listing("Methods", doc.methods)}
             ELSE IF data = <<"impls">> THEN {Listing("Implementations", doc.implementations)}
             ELSE {}
      [] doc.kind = "Trait" ->
             IF IndexedSection(doc, data) # {} THEN IndexedSection(doc, data)
             ELSE IF data = <<"rmethods">>
             THEN {Listing("Required Methods", doc.required_methods)}
             ELSE IF data = <<"pmethods">>
             THEN {Listing("Provided Methods", doc.provided_methods)}
             ELSE IF data = <<"impls">>
             THEN {Listing("Foreign Implementations", doc.implementations)}
             ELSE IF data = <<"implors">> THEN {Listing("Implementors", doc.implementors)}
             ELSE {}
      [] OTHER -> IndexedSection(doc, data)

\* C29: a follow-up that found the stored document edits the message with
\* the section the slicing rule gives its selector for the document's shape,
\* and sends no edit when the rule gives none: only in-range indices for
\* Function, Method and TraitMethod, those and the named keys of the shape
\* for Struct and Trait, only the eight bucket keys for Module.
C29_SlicingRule ==
    \A c \in Callbacks :
        LET q == callback[c]
        IN  (q.pc \in {"edit", "done"} /\ IsSome(q.found)) =>
                LET doc == Unwrap(q.found)
                    claimed == ClaimedSection(doc, Unwrap(q.data))
                IN  IF claimed = {}
                    THEN q.pc = "done" /\ q.edit = None
                    ELSE /\ IsSome(q.edit)
                         /\ Unwrap(q.edit).text = CallbackText(doc, Unwrap(claimed))

\* a follow-up on a Trait document edits the message with the Provided
\* Methods listing
C29_Witness ==
    \E c \in Callbacks :
        /\ callback[c].pc = "edit"
        /\ Unwrap(callback[c].found).kind = "Trait"
        /\ callback[c].data = Some(<<"pmethods">>)
        /\ \E i \in 1..Len(Unwrap(callback[c].edit).text) :
               Unwrap(callback[c].edit).text[i] = "Provided Methods"

\* the listing a button label names
BucketOfLabel(label) ==
    CASE label = "Modules"    -> "modules"
      [] label = "Structs"    -> "structs"
      [] label = "Traits"     -> "traits"
      [] label = "Enums"      -> "enums"
      [] label = "Macros"     -> "macros"
      [] label = "Functions"  -> "functions"
      [] label = "Attributes" -> "attributes"
      [] label = "Consts"     -> "consts"

\* C30 as claimed: a follow-up on a Module document whose data is that of a
\* button of the document's keyboard edits the message with the listing the
\* button's label names.
C30_ButtonShowsItsBucket ==
    \A c \in Callbacks :
        LET q == callback[c]
        IN  (q.pc = "edit" /\ Unwrap(q.found).kind = "Module") =>
                LET doc == Unwrap(q.found)
                    keyboard == ModuleKeyboard(doc)
                IN  \A r \in 1..Len(keyboard) : \A i \in 1..Len(keyboard[r]) :
                        keyboard[r][i].data = Unwrap(q.data) =>
                            Unwrap(q.edit).text
                                = CallbackText(doc, doc[BucketOfLabel(keyboard[r][i].label)])

(***************************************************************************)
(* Properties of the two maps together and of the follow-up's effects,     *)
(* checked under Spec                                                      *)
(***************************************************************************)
\* C31: every key that has a tag in CALLBACK_SESSIONS has a document in
\* SEARCH_RESULT, so a follow-up that found the Docs tag of its message and
\* has read SEARCH_RESULT has found a document.
C31_TagImpliesDocument ==
    /\ \A k \in Keys : IsSome(CALLBACK_SESSIONS[k]) => IsSome(SEARCH_RESULT[k])
    /\ \A c \in Callbacks :
           (callback[c].session = Some("Docs") /\ callback[c].pc \in {"edit", "done"})
               => IsSome(callback[c].found)

\* a follow-up has found tag and document of one reply while another lookup
\* has inserted its document and not yet its tag
C31_Witness ==
    \E c \in Callbacks, t \in Lookups :
        /\ callback[c].pc = "edit"
        /\ callback[c].session = Some("Docs")
        /\ IsSome(callback[c].found)
        /\ lookup[t].pc = "write_tag"
        /\ IsSome(SEARCH_RESULT[SessionKey(Unwrap(lookup[t].message))])
        /\ CALLBACK_SESSIONS[SessionKey(Unwrap(lookup[t].message))] = None

\* C32 as claimed: when the edits sent under the read lock are answered,
\* every lookup that waits for the write lock of a map makes its insert and
\* returns.
C32_WritesHappen ==
    \A t \in Lookups :
        (lookup[t].pc \in {"write_doc", "write_tag"}) ~> (lookup[t].pc = "done")

\* C33: no step of a follow-up changes SEARCH_RESULT or CALLBACK_SESSIONS,
\* whether it arrives, slices, finds no section, or has its edit answered or
\* failed.
C33_FollowUpWritesNothing ==
    [][ (callback' # callback) =>
            /\ SEARCH_RESULT' = SEARCH_RESULT
            /\ CALLBACK_SESSIONS' = CALLBACK_SESSIONS
      ]_vars

\* the edit of a follow-up has failed and the document it sliced is still
\* stored under the key of its message
C33_Witness ==
    \E c \in Callbacks :
        /\ callback[c].pc = "done"
        /\ callback[c].returned = "Err"
        /\ IsSome(callback[c].edit)
        /\ IsSome(callback[c].found)
        /\ SEARCH_RESULT[SessionKey(Unwrap(callback[c].message))] = callback[c].found
        /\ CALLBACK_SESSIONS[SessionKey(Unwrap(callback[c].message))] = Some("Docs")

(***************************************************************************)
(* Properties of the join of the candidates, checked under SpecResolver    *)
(***************************************************************************)
\* the outcome the claim assigns to the results of the candidates: the
\* document of the shape highest in the priority order, None without one
OutcomeOf(cands, got) ==
    LET hits == Hits(got)
    IN  IF hits = {} THEN None
        ELSE got[CHOOSE i \in hits :
                     \A j \in hits : Priority(cands[i].shape) <= Priority(cands[j].shape)].doc

\* C34: the outcome of a resolution is determined by what the redirector
\* answered and by what each candidate returned, not by the order in which
\* the candidates completed: a transport failure of a candidate gives a
\* failure; a resolution that returns otherwise has every candidate complete
\* and returns the document of the highest-priority shape among the documents
\* returned, and not found when there is none.
C34_OutcomeByResultsOnly ==
    \A t \in Lookups :
        /\ lookup[t].failed # 0 => lookup[t].result = "err" /\ lookup[t].document = None
        /\ lookup[t].pc \in {"reply", "not_found"} /\ lookup[t].cands # <<>> =>
               /\ lookup[t].failed = 0
               /\ AllDone(lookup[t].got)
               /\ lookup[t].document = OutcomeOf(lookup[t].cands, lookup[t].got)
               /\ lookup[t].result = IF Hits(lookup[t].got) = {} THEN "none" ELSE "doc"
        /\ lookup[t].pc \in {"reply", "not_found"} /\ lookup[t].cands = <<>> =>
               lookup[t].result = "none" /\ lookup[t].document = None

\* two candidates returned a document, the one of lower priority completed
\* first, and the document of the other is the one returned
C34_Witness ==
    \E t \in Lookups :
        /\ lookup[t].pc = "reply"
        /\ Cardinality(Hits(lookup[t].got)) = 2
        /\ lookup[t].first \in Hits(lookup[t].got)
        /\ \E i \in Hits(lookup[t].got) :
               /\ i < lookup[t].first
               /\ lookup[t].document = lookup[t].got[i].doc
               /\ lookup[t].document # lookup[t].got[lookup[t].first].doc

\* the candidates of lookup t whose request is still unanswered
InFlight(t) == {i \in 1..Len(lookup[t].got) : ~lookup[t].got[i].done}

\* C35: the step in which a resolution with candidates returns a document or
\* not found is the completion of its last candidate: one candidate was in
\* flight before the step and none is after it.
C35_ReturnsAfterAllComplete ==
    [][ \A t \in Lookups :
            ( /\ lookup[t].pc = "fetch"
              /\ lookup'[t].pc \in {"reply", "not_found"} )
            => /\ Cardinality(InFlight(t)) = 1
               /\ lookup'[t].cands = lookup[t].cands
               /\ Len(lookup'[t].got) = Len(lookup[t].cands)
               /\ \A i \in 1..Len(lookup'[t].got) : lookup'[t].got[i].done
      ]_vars

\* the Module candidate of a four-segment path was the first to complete, with
\* a document, and the resolution returned it with all six candidates complete
C35_Witness ==
    \E t \in Lookups :
        /\ lookup[t].pc = "reply"
        /\ Len(lookup[t].cands) = 6
        /\ lookup[t].first = 1
        /\ lookup[t].document = lookup[t].got[1].doc
        /\ InFlight(t) = {}
        /\ \E i \in 2..6 : lookup[t].got[i].status # 0

\* C36: the path of every document a candidate returns, and of the document
\* the resolution returns, is the string get_document was called with.
C36_PathIsRequested ==
    \A t \in Lookups :
        /\ \A i \in 1..Len(lookup[t].got) :
               IsSome(lookup[t].got[i].doc) =>
                   Unwrap(lookup[t].got[i].doc).path = lookup[t].args[1]
        /\ IsSome(lookup[t].document) =>
               Unwrap(lookup[t].document).path = lookup[t].args[1]

\* a four-segment path is resolved to the document of its Method candidate,
\* whose path is put together from two module segments, the owner and the name
C36_Witness ==
    \E t \in Lookups :
        /\ lookup[t].pc = "reply"
        /\ lookup[t].args = <<PathCrateDeep>>
        /\ Unwrap(lookup[t].document).kind = "Method"
        /\ Unwrap(lookup[t].document).path = PathCrateDeep
        /\ Len(lookup[t].cands[5].module) = 2

(***************************************************************************)
(* Properties of the section buttons, checked under SpecSlices             *)
(***************************************************************************)
\* C37: for a stored document that is not a Module, the i-th section button
\* of the keyboard sent with it carries the decimal of i - 1 counted from
\* one (selector i counted from zero) and the heading of that section, and a
\* follow-up with that button's data edits the message with exactly that
\* section, heading and body.
C37_SectionButtonShowsItsSection ==
    \A c \in Callbacks :
        LET q == callback[c]
        IN  (q.pc \in {"edit", "done"} /\ IsSome(q.found)
                /\ Unwrap(q.found).kind # "Module") =>
                LET doc == Unwrap(q.found)
                    buttons == SectionButtons(doc)
                IN  /\ Len(buttons) = Len(doc.sections)
                    /\ \A i \in 1..Len(buttons) :
                           /\ Len(buttons[i]) = 1
                           /\ ParseUsize(buttons[i][1].data) = Some(i - 1)
                           /\ buttons[i][1].label = doc.sections[i][1]
                           /\ buttons[i][1].data = Unwrap(q.data) =>
                                  /\ IsSome(q.edit)
                                  /\ Unwrap(q.edit).text
                                         = CallbackText(doc, doc.sections[i])

\* the second section button of a Struct document was pressed and the message
\* is edited with the second section
C37_Witness ==
    \E c \in Callbacks :
        /\ callback[c].pc = "edit"
        /\ Unwrap(callback[c].found).kind = "Struct"
        /\ Len(SectionButtons(Unwrap(callback[c].found))) >= 2
        /\ callback[c].data = Some(SectionButtons(Unwrap(callback[c].found))[2][1].data)
        /\ Unwrap(callback[c].edit).text
               = CallbackText(Unwrap(callback[c].found), Unwrap(callback[c].found).sections[2])

(***************************************************************************)
(* Properties of what a follow-up sends, checked under Spec                *)
(***************************************************************************)
\* the edit the entry under the key of a message and a selector determine:
\* none without an entry or without a section for the selector
EditOf(key, markup, entry, data) ==
    IF IsSome(entry) /\ IsSome(SliceSection(Unwrap(entry), data))
    THEN Some([chat_id |-> key[1], message_id |-> key[2],
               text |-> CallbackText(Unwrap(entry),
                                     Unwrap(SliceSection(Unwrap(entry), data))),
               reply_markup |-> markup])
    ELSE None

\* C38: the edit a follow-up on message (c, m) has in flight is the one the
\* entry of SEARCH_RESULT under (c, m) and the selector determine, and it is
\* addressed to (c, m), whatever the entries under the other keys; a
\* follow-up that has sent an edit has sent the one its document and its
\* selector determine, to its own message.
C38_EditByOwnEntryOnly ==
    \A c \in Callbacks :
        LET q == callback[c]
        IN  /\ q.pc = "edit" =>
                   q.edit = EditOf(SessionKey(Unwrap(q.message)),
                                   Unwrap(Unwrap(q.message).reply_markup),
                                   SEARCH_RESULT[SessionKey(Unwrap(q.message))],
                                   Unwrap(q.data))
            /\ IsSome(q.edit) =>
                   /\ q.pc \in {"edit", "done"}
                   /\ q.edit = EditOf(SessionKey(Unwrap(q.message)),
                                      Unwrap(Unwrap(q.message).reply_markup),
                                      q.found, Unwrap(q.data))
                   /\ Unwrap(q.edit).chat_id = Unwrap(q.message).chat_id
                   /\ Unwrap(q.edit).message_id = Unwrap(q.message).id

\* a follow-up has its edit in flight while another message of the same chat
\* holds another document, which would give the selector another text
C38_Witness ==
    \E c \in Callbacks, k \in Keys :
        /\ callback[c].pc = "edit"
        /\ k # SessionKey(Unwrap(callback[c].message))
        /\ k[1] = Unwrap(callback[c].message).chat_id
        /\ IsSome(SEARCH_RESULT[k])
        /\ SEARCH_RESULT[k] # callback[c].found
        /\ EditOf(k, <<>>, SEARCH_RESULT[k], Unwrap(callback[c].data)) # None
        /\ Unwrap(EditOf(k, <<>>, SEARCH_RESULT[k], Unwrap(callback[c].data))).text
               # Unwrap(callback[c].edit).text

\* C39: a callback query gets an edit only when it has a message and data
\* and CALLBACK_SESSIONS holds the Docs tag under the key of the message; a
\* query without message, without data or for a message without tag ends on
\* arrival with no edit, and changes neither map.
C39_EditOnlyForTaggedMessage ==
    [][ \A c \in Callbacks :
            /\ (IsSome(callback'[c].edit) /\ callback'[c].edit # callback[c].edit) =>
                   /\ IsSome(callback[c].message)
                   /\ IsSome(callback[c].data)
                   /\ callback[c].session = Some("Docs")
                   /\ CALLBACK_SESSIONS[SessionKey(Unwrap(callback[c].message))] = Some("Docs")
            /\ ( /\ callback[c].pc = "idle" /\ callback'[c].pc # "idle"
                 /\ \/ callback'[c].message = None
                    \/ callback'[c].data = None
                    \/ CALLBACK_SESSIONS[SessionKey(Unwrap(callback'[c].message))] = None ) =>
                   /\ callback'[c].pc = "done"
                   /\ callback'[c].edit = None
                   /\ callback'[c].found = None
                   /\ UNCHANGED <<SEARCH_RESULT, CALLBACK_SESSIONS, readers>>
      ]_vars

\* a query with data for a delivered reply whose document is stored and whose
\* tag is not yet has ended without an edit
C39_Witness ==
    \E c \in Callbacks :
        /\ callback[c].pc = "done"
        /\ IsSome(callback[c].message) /\ IsSome(callback[c].data)
        /\ callback[c].visible
        /\ callback[c].session = None
        /\ callback[c].edit = None
        /\ IsSome(SEARCH_RESULT[SessionKey(Unwrap(callback[c].message))])
        /\ CALLBACK_SESSIONS[SessionKey(Unwrap(callback[c].message))] = None
        /\ SliceSection(Unwrap(SEARCH_RESULT[SessionKey(Unwrap(callback[c].message))]),
                        Unwrap(callback[c].data)) # None

=============================================================================
